---- MODULE Spec2Model ----
(***************************************************************************)
(* Model of the brand-mention ingestion pipeline of badinka-monitor.       *)
(*                                                                         *)
(* Spec    : UnifiedRedditMonitor (src/unified_reddit_monitor.py): the     *)
(*           streaming (PRAW), listing (JSON) and syndication (RSS)        *)
(*           adapter tasks and the periodic flush task, interleaved at     *)
(*           their await points on one asyncio event loop, over the        *)
(*           shared seen_ids set, the mention_buffer list and the store.   *)
(* SpecHist: Spec, with the presentations the dedup check rejects         *)
(*           recorded.                                                     *)
(* FairSpec: the monitor with weak fairness of every task, on feeds whose  *)
(*           items match at most one brand.                                *)
(* SpecItem: the adapter tasks alone, one fetched item per step.           *)
(* SpecDB  : sequences of DatabaseManager.insert_mentions calls, for the   *)
(*           PostgreSQL variant (unified_reddit_monitor.py) and the SQLite *)
(*           variant (all_in_one_reddit_monitor.py).                       *)
(*                                                                         *)
(* A coroutine runs without interruption between two suspensions, so one   *)
(* action is the code a task executes from one suspension to the next.     *)
(* `await coro()` of a coroutine that does not suspend runs inline.        *)
(***************************************************************************)
EXTENDS Integers, Sequences, FiniteSets, TLC

VARIABLES
    seen_ids,        \* UnifiedRedditMonitor.seen_ids
    mention_buffer,  \* UnifiedRedditMonitor.mention_buffer (list of Mention objects)
    store,           \* rows of table mentions, keyed by the primary key id
    db_up,           \* whether psycopg2.connect / the transaction succeeds
    pc,              \* position of the streaming task and of the periodic flush task
    fidx,            \* per flush caller: list-iterator position of `for mention in mention_buffer`
    fcur,            \* per flush caller: uid of the Mention object awaiting analyze()
    fstart,          \* history (when track = "flush"): per flush caller, the greatest uid
                     \* in the buffer when its latest flush started
    next_uid,        \* identity of the next Mention object constructed
    draft_passes,    \* history: per id, number of item presentations that appended drafts
    fed,             \* history (when track = "order"): per adapter, the ids of the items its
                     \* feed has yielded, in the order it yielded them
    dup_dropped,     \* history (when track = "dedup"): the dedup check has rejected a presentation
    track,           \* the history this behaviour records: "none", "dedup", "flush" or "order"
    upserted,        \* history: per Mention object, number of successful upserts holding it
    last_upsert,     \* history: the insert_mentions call made by the latest step, if any
    variant,         \* which DatabaseManager backs the store ("postgres" or "sqlite")
    cur_item,        \* SpecItem: the feed item an adapter is about to examine
    limiter,         \* SpecLimiter: one RateLimiter, its callers and the clock
    enrich,          \* SpecAnalyze: one SentimentAnalyzer.analyze call
    buffer_size,     \* UnifiedRedditMonitor.buffer_size
    loops,           \* SpecLoops: the control flow of the four tasks started by run()
    aio,             \* SpecAio: the tasks of the all-in-one RedditMonitor and its running flag
    matcher,         \* SpecMatch: one call of find_brands
    worker,          \* SpecWorker: the streaming loop of stream_worker.py
    pool             \* SpecPool: db_pool of improved_app.py and the request being handled

\* the variables of the component models and the configuration, which the monitor's
\* steps leave alone
aux == <<limiter, enrich, buffer_size, loops, aio, matcher, worker, pool>>

\* the variables of the monitor, which the component models leave alone
monitor_vars == <<seen_ids, mention_buffer, store, db_up, pc, fidx, fcur, fstart, next_uid,
                  draft_passes, fed, dup_dropped, track, upserted, last_upsert, variant, cur_item>>

vars == <<seen_ids, mention_buffer, store, db_up, pc, fidx, fcur, fstart,
          next_uid, draft_passes, fed, dup_dropped, track, upserted, last_upsert, variant, cur_item, aux>>

-----------------------------------------------------------------------------
(* Bounds of the model *)

\* most Mention objects constructed in one run
MaxMentions == 4
\* RateLimiter: the window (60 seconds in the source) in clock ticks
Window == 3
\* RateLimiter.requests_per_minute of the limiter under test
Budget == 2
\* number of coroutines calling acquire() on the limiter
NumCallers == 3
\* last tick of the clock
MaxTime == 7
\* most items the feed of one adapter yields while their order is recorded
MaxFed == 3
\* chunks of a listing cycle, and communities of a syndication cycle
NumUnits == 2
\* UnifiedRedditMonitor.buffer_size (50 in the source), scaled to the number of
\* Mention objects a run of the model constructs
BufferSize == 1
\* most words of a text handed to find_brands on its own
MaxWords == 3
\* most rows stream_worker collects in all_data
MaxRows == 3
\* maxconn of db_pool, 20, scaled
PoolMax == 2
\* threads of the server that run request handlers of improved_app
NumThreads == 2

-----------------------------------------------------------------------------
(* Values *)

None == "None"

Ids == {"c1", "c2"}

\* config['brands'], in dict order
Brands == <<"badinka", "iheartraves">>

\* words a text is made of, and str.lower() on them
Vocabulary == {"jacket", "badinka", "BADINKA.com", "#iHeartRaves"}

Lower(w) ==
    CASE w = "BADINKA.com" -> "badinka.com"
      [] w = "#iHeartRaves" -> "#iheartraves"
      [] OTHER -> w

\* a text is a sequence of words separated by single blanks
Blank == <<>>
Texts == { <<"jacket">>, <<"BADINKA.com">>, <<"badinka", "#iHeartRaves">> }

RECURSIVE TextLen(_)
\* len(text)
TextLen(text) ==
    IF text = <<>> THEN 0
    ELSE IF Len(text) = 1 THEN Len(text[1])
    ELSE Len(text[1]) + 1 + TextLen(Tail(text))

\* f"{a} {b}" need not be modelled beyond its words
Join(a, b) == a \o b

Labels == {"positive", "neutral", "negative"}

\* labels the enrichment calls of a run come back with
AnalyzeOutcomes == {"positive", "neutral"}

Scores == {0, 1}

\* '/'-separated segments of an entry link; a trailing "" is a trailing slash
Links == { <<"comments", "c1", "">>, <<"r", "c1", "">>, <<"c2">> }

-----------------------------------------------------------------------------
(* Brand Matcher *)

\* re.compile(r'[@#]?<brand>(?:\.com)?', re.IGNORECASE) matched against one word
PatternMatchesWord(brand, w) ==
    Lower(w) \in { p \o brand \o s : p \in {"", "@", "#"}, s \in {"", ".com"} }

\* pattern.search(text)
PatternSearch(brand, text) ==
    \E i \in 1..Len(text) : PatternMatchesWord(brand, text[i])

find_brands(text) ==
    SelectSeq(Brands, LAMBDA b : PatternSearch(b, text))

-----------------------------------------------------------------------------
(* Mention objects.  title None is the empty text; permalink, created,     *)
(* subreddit and author are copied from the item and never read again.     *)

\* Mention(id=..., ..., sentiment=None, brand=brand, source=...)
Mention(uid, id, type, title, body, score, brand, source) ==
    [uid |-> uid, id |-> id, type |-> type, title |-> title, body |-> body,
     score |-> score, sentiment |-> None, brand |-> brand, source |-> source]

\* adapter-visible state threaded through the processing of one response
AdapterState == [seen |-> seen_ids, buffer |-> mention_buffer, uid |-> next_uid,
                 passes |-> draft_passes, dropped |-> dup_dropped]

\* `continue` of an item whose id is in seen_ids
Dropped(st, id) == [st EXCEPT !.dropped = TRUE]

\* variant of MarkSeen that keeps only the latest id
MarkSeenLatest(seen, id) == {id}

\* self.seen_ids.add(id)
MarkSeen(seen, id) == seen \cup {id}

\* variant of BufferAppend that puts the draft at the head of the list
BufferPrepend(buf, m) == <<m>> \o buf

\* self.mention_buffer.append(mention)
BufferAppend(buf, m) == Append(buf, m)

RECURSIVE AppendDrafts(_, _, _)
\* for brand in brands: mention_buffer.append(mention); seen_ids.add(id)
\* (item: the fields every Mention of the loop is constructed from)
AppendDrafts(st, item, brands) ==
    IF brands = <<>> THEN st
    ELSE AppendDrafts(
            [st EXCEPT !.buffer = BufferAppend(@, Mention(st.uid, item.id, item.type,
                                                          item.title, item.body, item.score,
                                                          Head(brands), item.source)),
                       !.seen = MarkSeen(@, item.id),
                       !.uid = @ + 1],
            item, Tail(brands))

\* variant of AddMentions that marks the id seen before `if brands:`
AddMentionsMarkSeen(st, id, type, title, body, score, source, brands) ==
    IF brands = <<>> THEN [st EXCEPT !.seen = MarkSeen(@, id)]
    ELSE LET item == [id |-> id, type |-> type, title |-> title, body |-> body,
                      score |-> score, source |-> source]
             st2 == AppendDrafts(st, item, brands)
         IN [st2 EXCEPT !.passes[id] = @ + 1]

\* if brands: for brand in brands: ...
AddMentions(st, id, type, title, body, score, source, brands) ==
    IF brands = <<>> THEN st
    ELSE LET item == [id |-> id, type |-> type, title |-> title, body |-> body,
                      score |-> score, source |-> source]
             st2 == AppendDrafts(st, item, brands)
         IN [st2 EXCEPT !.passes[id] = @ + 1]

\* stream_praw_comments, body of the loop after praw_limiter.acquire()
PrawProcessComment(st, c) ==
    IF c.id \in st.seen THEN Dropped(st, c.id)
    ELSE AddMentions(st, c.id, "comment", Blank, c.body, c.score, "praw", find_brands(c.body))

\* variant of TooShort: the listing adapter without its length filter
TooShortNever(body) == FALSE
\* if len(body) < 10: continue
TooShort(body) == TextLen(body) < 10

\* variant of JsonProcessChild without the test of seen_ids
JsonProcessChildNoDedup(st, c) ==
    IF c.id = None THEN st
    ELSE IF TextLen(c.body) < 10 THEN st
    ELSE AddMentions(st, c.id, "comment", Blank, c.body, c.score, "json", find_brands(c.body))

\* _process_json_comments, one child
JsonProcessChild(st, c) ==
    IF c.id = None THEN st
    ELSE IF c.id \in st.seen THEN Dropped(st, c.id)
    ELSE IF TooShort(c.body) THEN st
    ELSE AddMentions(st, c.id, "comment", Blank, c.body, c.score, "json", find_brands(c.body))

RECURSIVE process_json_comments(_, _)
process_json_comments(st, children) ==
    IF children = <<>> THEN st
    ELSE process_json_comments(JsonProcessChild(st, Head(children)), Tail(children))

\* entry.link.split('/')[-2] if '/' in entry.link else entry.link
PostId(link) == IF Len(link) >= 2 THEN link[Len(link) - 1] ELSE link[1]

\* variant of RssProcessEntry without the test of seen_ids
RssProcessEntryNoDedup(st, e) ==
    AddMentions(st, PostId(e.link), "post", e.title, e.content, 0, "rss",
                find_brands(Join(e.title, e.content)))

\* _process_rss_feed, one entry
RssProcessEntry(st, e) ==
    IF PostId(e.link) \in st.seen THEN Dropped(st, PostId(e.link))
    ELSE AddMentions(st, PostId(e.link), "post", e.title, e.content, 0, "rss",
                     find_brands(Join(e.title, e.content)))

RECURSIVE process_rss_feed(_, _)
process_rss_feed(st, entries) ==
    IF entries = <<>> THEN st
    ELSE process_rss_feed(RssProcessEntry(st, Head(entries)), Tail(entries))

-----------------------------------------------------------------------------
(* Persistence: table mentions with PRIMARY KEY id *)

Row(m) == [id |-> m.id, type |-> m.type, title |-> m.title, body |-> m.body,
           score |-> m.score, sentiment |-> m.sentiment, brand |-> m.brand,
           source |-> m.source]

HasRow(st, id) == \E r \in st : r.id = id
RowOf(st, id) == CHOOSE r \in st : r.id = id

\* INSERT ... ON CONFLICT (id) DO UPDATE SET score = EXCLUDED.score,
\*                                           sentiment = EXCLUDED.sentiment
PgUpsertRow(st, m) ==
    IF HasRow(st, m.id)
    THEN LET old == RowOf(st, m.id)
         IN (st \ {old}) \cup {[old EXCEPT !.score = m.score, !.sentiment = m.sentiment]}
    ELSE st \cup {Row(m)}

\* INSERT OR REPLACE INTO mentions ...
SqliteReplaceRow(st, m) ==
    {r \in st : r.id # m.id} \cup {Row(m)}

RECURSIVE UpsertAll(_, _, _)
UpsertAll(st, ms, v) ==
    IF ms = <<>> THEN st
    ELSE UpsertAll(IF v = "postgres" THEN PgUpsertRow(st, Head(ms))
                   ELSE SqliteReplaceRow(st, Head(ms)),
                   Tail(ms), v)

\* one INSERT ... ON CONFLICT DO UPDATE command may not affect a row twice:
\* PostgreSQL raises a cardinality violation and the transaction is not committed
HasDuplicateIds(ms) ==
    \E i, j \in 1..Len(ms) : i < j /\ ms[i].id = ms[j].id

\* variant of insert_mentions that commits row by row, so that the rows before the
\* one that raises stay in the table
insert_mentions_partial(st, ms, up, v) ==
    IF ms = <<>> THEN [ok |-> TRUE, store |-> st]
    ELSE IF ~up THEN [ok |-> FALSE, store |-> st]
    ELSE IF v = "postgres" /\ HasDuplicateIds(ms)
         THEN [ok |-> FALSE, store |-> UpsertAll(st, <<Head(ms)>>, v)]
    ELSE [ok |-> TRUE, store |-> UpsertAll(st, ms, v)]

\* variant of insert_mentions that logs the error of the connection and returns
insert_mentions_swallow(st, ms, up, v) ==
    IF ms = <<>> THEN [ok |-> TRUE, store |-> st]
    ELSE IF ~up THEN [ok |-> TRUE, store |-> st]
    ELSE IF v = "postgres" /\ HasDuplicateIds(ms) THEN [ok |-> FALSE, store |-> st]
    ELSE [ok |-> TRUE, store |-> UpsertAll(st, ms, v)]

\* DatabaseManager.insert_mentions: ok = returned normally, else raised
insert_mentions(st, ms, up, v) ==
    IF ms = <<>> THEN [ok |-> TRUE, store |-> st]
    ELSE IF ~up THEN [ok |-> FALSE, store |-> st]
    ELSE IF v = "postgres" /\ HasDuplicateIds(ms) THEN [ok |-> FALSE, store |-> st]
    ELSE [ok |-> TRUE, store |-> UpsertAll(st, ms, v)]

\* variant of get_existing_ids that reads no row
get_existing_ids_none(st) == {}

\* DatabaseManager.get_existing_ids
get_existing_ids(st) == {r.id : r \in st}

-----------------------------------------------------------------------------
(* Sentiment enrichment and flush *)

\* text = f"{mention.title or ''} {mention.body or ''}"; analyze returns "neutral"
\* without suspending when not text or len(text.strip()) == 0
AnalyzeReturnsAtOnce(m) == m.title = Blank /\ m.body = Blank

Bump(f, k) == [f EXCEPT ![k] = @ + 1]

RECURSIVE FlushScan(_, _)
\* `for mention in self.mention_buffer`, resumed with i elements already yielded by
\* the list iterator, up to the first analyze() call that suspends or to exhaustion
FlushScan(buf, i) ==
    IF i >= Len(buf)
    THEN [done |-> TRUE, buffer |-> buf, idx |-> 0, cur |-> 0]
    ELSE LET m == buf[i + 1] IN
         IF m.sentiment # None THEN FlushScan(buf, i + 1)
         ELSE IF AnalyzeReturnsAtOnce(m)
         THEN FlushScan([buf EXCEPT ![i + 1].sentiment = "neutral"], i + 1)
         ELSE [done |-> FALSE, buffer |-> buf, idx |-> i + 1, cur |-> m.uid]

\* mention.sentiment = <label>, on the object the suspended loop body holds
SetSentiment(buf, uid, label) ==
    [i \in DOMAIN buf |->
        IF buf[i].uid = uid THEN [buf[i] EXCEPT !.sentiment = label] ELSE buf[i]]

RECURSIVE CountUpserts(_, _)
CountUpserts(f, ms) ==
    IF ms = <<>> THEN f ELSE CountUpserts(Bump(f, Head(ms).uid), Tail(ms))

\* variant of AfterInsert that clears the buffer whether or not insert_mentions raised
AfterInsertAlwaysClear(buf, ok) == <<>>

\* self.db.insert_mentions(self.mention_buffer); self.mention_buffer.clear():
\* the buffer after the call, clear() being skipped when insert_mentions raised
AfterInsert(buf, ok) == IF ok THEN <<>> ELSE buf

\* process_mention_buffer from list-iterator position i, for caller t, which goes to
\* okpc when the coroutine returns and to errpc when insert_mentions raises
FlushFrom(t, buf, i, okpc, errpc) ==
    LET s == FlushScan(buf, i) IN
    /\ fidx' = [fidx EXCEPT ![t] = s.idx]
    /\ fcur' = [fcur EXCEPT ![t] = s.cur]
    /\ IF ~s.done
       THEN /\ mention_buffer' = s.buffer
            /\ pc' = [pc EXCEPT ![t] = "analyze"]
            /\ last_upsert' = <<>>
            /\ UNCHANGED <<store, upserted>>
       ELSE LET r == insert_mentions(store, s.buffer, db_up, variant) IN
            /\ last_upsert' = <<[batch |-> s.buffer, ok |-> r.ok]>>
            /\ store' = r.store
            /\ mention_buffer' = AfterInsert(s.buffer, r.ok)
            /\ upserted' = IF r.ok THEN CountUpserts(upserted, s.buffer) ELSE upserted
            /\ pc' = [pc EXCEPT ![t] = IF r.ok THEN okpc ELSE errpc]

\* process_mention_buffer called by t on buffer buf
process_mention_buffer(t, buf, okpc, errpc) ==
    IF buf = <<>>
    THEN /\ mention_buffer' = buf
         /\ pc' = [pc EXCEPT ![t] = okpc]
         /\ last_upsert' = <<>>
         /\ UNCHANGED <<store, upserted, fidx, fcur, fstart>>
    ELSE /\ FlushFrom(t, buf, 0, okpc, errpc)
         /\ fstart' = IF track = "flush" THEN [fstart EXCEPT ![t] = buf[Len(buf)].uid]
                      ELSE fstart

\* the awaited analyze() of caller t returns label
AnalyzeReturn(t, label, okpc, errpc) ==
    /\ pc[t] = "analyze"
    /\ FlushFrom(t, SetSentiment(mention_buffer, fcur[t], label), fidx[t], okpc, errpc)
    /\ UNCHANGED <<fstart, seen_ids, db_up, next_uid, draft_passes, fed, dup_dropped, track, variant, cur_item, aux>>

-----------------------------------------------------------------------------
(* Inputs the feeds can deliver *)

FeedScores == {1}

Comments == [id : Ids, body : Texts, score : FeedScores]

\* children of a listing response; comment_data.get("id") may be absent
Children == [id : Ids \cup {None}, body : Texts, score : FeedScores]

\* entries of a feed document
Entries == [link : Links, title : Texts, content : {Blank}]

\* documents a feed can return: no item, one item, or one item listed twice (two
\* different items in one document act as two documents in a row)
Docs(S) == {<<>>} \cup {<<c>> : c \in S} \cup {<<c, c>> : c \in S}

FlushCallers == {"praw", "flush"}

\* the adapters, by the source they put in their drafts
FeedAdapters == {"praw", "json", "rss"}

NoItem == [adapter |-> None, id |-> None, link |-> <<>>, title |-> Blank, body |-> Blank,
           score |-> 0]

\* rows a store of an earlier run may hold at construction
InitStores ==
    { {},
      { [id |-> "c2", type |-> "comment", title |-> Blank, body |-> <<"BADINKA.com">>,
         score |-> 1, sentiment |-> "neutral", brand |-> "badinka", source |-> "praw"] } }

-----------------------------------------------------------------------------
(* RateLimiter.  time.time() is a clock in ticks; asyncio.sleep(d) returns when *)
(* at least d has passed, and as much later as the event loop lets it.          *)

Callers == 1..NumCallers

\* RateLimiter(requests_per_minute): self.requests = []; no caller has called yet.
\* grants is the history of the times at which acquire() returned.
LimiterInit ==
    limiter = [clock |-> 0, requests |-> <<>>, grants |-> <<>>,
               lpc |-> [c \in Callers |-> "idle"], wake |-> [c \in Callers |-> 0]]

\* [req_time for req_time in self.requests if now - req_time < 60]
Pruned(requests, now) == SelectSeq(requests, LAMBDA t : now - t < Window)

\* acquire(), from `now = time.time()` to its return or to its asyncio.sleep
AcquireBody(lim, c) ==
    LET now == lim.clock
        reqs == Pruned(lim.requests, now)
        full == Len(reqs) >= Budget
        sleep_time == IF full THEN Window - (now - reqs[1]) ELSE 0
    IN IF full /\ sleep_time > 0
       THEN [lim EXCEPT !.requests = reqs, !.lpc[c] = "sleep", !.wake[c] = now + sleep_time]
       ELSE [lim EXCEPT !.requests = Append(reqs, now), !.grants = Append(@, now),
                        !.lpc[c] = "idle"]

\* variant of AcquireBody that does not prune and test again after its sleep
AcquireBodyNoRetry(lim, c) ==
    IF lim.lpc[c] = "sleep"
    THEN [lim EXCEPT !.requests = Append(Pruned(@, lim.clock), lim.clock),
                     !.grants = Append(@, lim.clock), !.lpc[c] = "idle"]
    ELSE AcquireBody(lim, c)

\* acquire() as caller c runs it, entered by a call or resumed after its sleep
\* (return await self.acquire())
AcquireRun(lim, c) == AcquireBody(lim, c)

\* caller c calls acquire()
LimAcquire(c) ==
    /\ limiter.lpc[c] = "idle"
    /\ limiter' = AcquireRun(limiter, c)
    /\ UNCHANGED <<monitor_vars, enrich, buffer_size, loops, aio, matcher, worker, pool>>

\* the asyncio.sleep(sleep_time) of caller c returns: return await self.acquire()
LimWake(c) ==
    /\ limiter.lpc[c] = "sleep"
    /\ limiter.clock >= limiter.wake[c]
    /\ limiter' = AcquireRun(limiter, c)
    /\ UNCHANGED <<monitor_vars, enrich, buffer_size, loops, aio, matcher, worker, pool>>

\* time passes
LimTick ==
    /\ limiter.clock < MaxTime
    /\ limiter' = [limiter EXCEPT !.clock = @ + 1]
    /\ UNCHANGED <<monitor_vars, enrich, buffer_size, loops, aio, matcher, worker, pool>>

\* timestamps ts one tick further in the past, those that every later acquire()
\* would prune being dropped
Aged(ts) == LET older == [i \in DOMAIN ts |-> ts[i] - 1]
            IN SelectSeq(older, LAMBDA t : limiter.clock - t < Window)

\* time passes, forever: the same step as LimTick with the origin of the clock
\* moved along, so that `now` stays limiter.clock and every timestamp is
\* relative to it.  The event loop is prompt: a caller whose sleep has ended
\* runs within the tick.
LimPass ==
    /\ \A c \in Callers : limiter.lpc[c] = "sleep" => limiter.wake[c] > limiter.clock
    /\ limiter' = [limiter EXCEPT
          !.requests = Aged(@),
          !.grants = Aged(@),
          !.wake = [c \in Callers |-> IF @[c] > limiter.clock THEN @[c] - 1 ELSE @[c]]]
    /\ UNCHANGED <<monitor_vars, enrich, buffer_size, loops, aio, matcher, worker, pool>>

-----------------------------------------------------------------------------
(* SentimentAnalyzer.analyze.  A label of the service is a sequence of words.  *)

\* api_token: os.getenv('HF_API_TOKEN') is None when unset
Tokens == {None, "", "hf_tok"}

\* self.headers = {"Authorization": f"Bearer {api_token}"}
AuthHeader(token) == [prefix |-> "Bearer ", token |-> token]

\* not self.headers.get("Authorization") or "Bearer " not in self.headers.get(...)
HeaderRejected(h) == h.prefix \o h.token = "" \/ h.prefix # "Bearer "

\* text arguments; " " is f"{None or ''} {None or ''}"
AnalyzeTexts == {None, "", " ", "love it"}

\* text.strip()
Strip(text) == IF text = " " THEN "" ELSE text

\* not text or len(text.strip()) == 0
EmptyText(text) == text = None \/ text = "" \/ Len(Strip(text)) = 0

\* labels the service names its classes by, and str.lower() of their words
ServiceLabels == { <<"Very", "Positive">>, <<"NEGATIVE">>, <<"Neutral">>, <<"LABEL_1">> }

LowerWord(w) ==
    CASE w = "Very" -> "very"
      [] w = "Positive" -> "positive"
      [] w = "NEGATIVE" -> "negative"
      [] w = "Neutral" -> "neutral"
      [] w = "LABEL_1" -> "label_1"
      [] OTHER -> w

\* 'positive' in top_label, for top_label = label.lower()
LabelHas(word, label) == \E i \in DOMAIN label : LowerWord(label[i]) = word

\* the class distributions a 200 response can carry
ScoreLists ==
    { <<>> } \cup { << [label |-> l, score |-> 9] >> : l \in ServiceLabels }
    \cup { << [label |-> <<"Neutral">>, score |-> 1], [label |-> l, score |-> 9] >> :
               l \in ServiceLabels }
    \cup { << [label |-> l, score |-> 5], [label |-> <<"Neutral">>, score |-> 5] >> :
               l \in ServiceLabels }

\* what the request can end in: an exception of the client (timeout, connection
\* error), or a response with a status and a body; the body is no JSON, a JSON
\* value that is no list, or a list of class distributions
Bodies ==
    [form : {"not_json", "not_a_list"}, list : {<<>>}]
    \cup [form : {"list"}, list : {<<>>} \cup { <<d>> : d \in ScoreLists }]

NoBody == [form |-> "not_json", list |-> <<>>]

Replies ==
    { [kind |-> "exception", status |-> 0, body |-> NoBody] }
    \cup [kind : {"response"}, status : {401, 503}, body : {NoBody}]
    \cup [kind : {"response"}, status : {200}, body : Bodies]

NoReply == [kind |-> "none", status |-> 0, body |-> NoBody]

\* variant of MaxByScore that takes the first class of the distribution
MaxByScoreFirst(scores, best) == best

RECURSIVE MaxByScore(_, _)
\* max(scores, key=lambda x: x['score']): the first element of the greatest score
MaxByScore(scores, best) ==
    IF scores = <<>> THEN best
    ELSE MaxByScore(Tail(scores),
                    IF Head(scores).score > best.score THEN Head(scores) ELSE best)

\* the body of `if response.status == 200:`; "raise" stands for an exception
ParseReply(body) ==
    IF body.form # "list" THEN "raise"               \* response.json(), result[0]
    ELSE IF body.list = <<>> THEN "raise"            \* result[0]
    ELSE IF body.list[1] = <<>> THEN "raise"         \* max() of an empty sequence
    ELSE LET scores == body.list[1]
             top_label == MaxByScore(Tail(scores), Head(scores)).label IN
         IF LabelHas("positive", top_label) THEN "positive"
         ELSE IF LabelHas("negative", top_label) THEN "negative"
         ELSE "neutral"

\* analyze, from the request's outcome to the return: try ... except Exception
AnalyzeOnReply(reply) ==
    LET r == IF reply.kind = "exception" THEN "raise"
             ELSE IF reply.status = 200 THEN ParseReply(reply.body)
             ELSE "neutral"
    IN IF r = "raise" THEN "neutral" ELSE r

\* analyze returns before any request: the test of its first line.  Only the
\* all-in-one monitor looks at the Authorization header.
ReturnsBeforeRequest(v, token, text) ==
    \/ EmptyText(text)
    \/ v = "sqlite" /\ HeaderRejected(AuthHeader(token))

\* an analyzer of either monitor is constructed with a token and analyze(text) is
\* about to be called; result "none": the call has not returned
EnrichInit ==
    enrich \in [v : {"postgres", "sqlite"}, token : Tokens, text : AnalyzeTexts,
                at : {"call"}, requested : {FALSE}, reply : {NoReply}, result : {"none"}]

\* no call of analyze is under test
EnrichIdle ==
    enrich = [v |-> "postgres", token |-> "hf_tok", text |-> None, at |-> "call",
              requested |-> FALSE, reply |-> NoReply, result |-> "none"]

-----------------------------------------------------------------------------
(* The control flow of the tasks started by run(): the loops of the three     *)
(* adapters and of the periodic flush, with the outcome of each unit of work  *)
(* (one stream read, one chunk request, one feed request, one timed flush)    *)
(* as an input                                                                *)

LoopTasks == {"praw", "json", "rss", "flush"}
Adapters == {"praw", "json", "rss"}
\* the adapters that poll: `for subreddit_chunk in ...`, `for subreddit in ...`
Pollers == {"json", "rss"}
Units == 1..NumUnits

\* where each task waits at first: the stream read, json_limiter.acquire(), the
\* first request of a feed, sleep(30)
LoopStart(t) ==
    CASE t = "praw" -> "read"
      [] t = "json" -> "acquire"
      [] t = "rss" -> "request"
      [] OTHER -> "sleep"

\* at: where each task is; unit: the chunk or community a poller requests next;
\* asked (history): the units requested in the current cycle; raised (history):
\* the tasks in which a unit of work has raised; after (history): the tasks that
\* have taken a step since a sibling ended; gate: whether the adapter's latest
\* step of interest was a granted acquire() on its limiter, no request since
LoopsInit ==
    loops = [at     |-> [t \in LoopTasks |-> LoopStart(t)],
             unit   |-> [p \in Pollers |-> 1],
             asked  |-> [p \in Pollers |-> {}],
             raised |-> {},
             after  |-> {},
             gate   |-> [a \in Adapters |-> FALSE]]

\* asyncio.gather(*tasks, return_exceptions=True)
return_exceptions == TRUE

\* gather without return_exceptions: the exception of task t leaves run(), and
\* asyncio.run cancels the tasks still pending
GatherPropagates(at, t) == [b \in LoopTasks |-> IF b = t THEN "ended" ELSE "cancelled"]
\* task t ends with an exception while run() awaits the gather
GatherOutcome(at, t) ==
    IF return_exceptions
    THEN [at EXCEPT ![t] = "ended"]
    ELSE [b \in LoopTasks |-> IF b = t THEN "ended" ELSE "cancelled"]

\* no `except` of any task catches
EscapesAlways(t) == TRUE
\* whether an exception raised in the loop body of task t leaves the task:
\* periodic_buffer_flush has no try; the adapters have `except Exception`
\* inside `while True`
Escapes(t) == t = "flush"

\* a unit of work of task t raises
OnException(at, t) ==
    IF Escapes(t) THEN GatherOutcome(at, t) ELSE [at EXCEPT ![t] = "backoff"]

\* the history of a step of task t
Stepped(t) ==
    IF \E b \in LoopTasks \ {t} : loops.at[b] = "ended"
    THEN loops.after \cup {t} ELSE loops.after

PrawOutcomes == {"none", "handled", "too_many", "raises", "flush_raises"}

\* the outcomes in which the stream has yielded a comment and the loop body has
\* passed `await self.praw_limiter.acquire()`
PrawAcquired == {"handled", "flush_raises"}

\* one read of the stream: None (pause_after), a comment handled to the end of
\* the loop body, TooManyRequests or another exception of the read, or a comment
\* whose handling raises after the acquire (find_brands, the flush)
LoopPrawRead(o) ==
    /\ loops.at["praw"] = "read"
    /\ loops' = [loops EXCEPT
          !.at = CASE o = "none" -> [@ EXCEPT !["praw"] = "pause"]
                   [] o = "handled" -> @
                   [] OTHER -> OnException(@, "praw"),
          !.raised = IF o \in {"too_many", "raises", "flush_raises"}
                     THEN @ \cup {"praw"} ELSE @,
          !.gate["praw"] = o \in PrawAcquired,
          !.after = Stepped("praw")]
    /\ UNCHANGED <<monitor_vars, limiter, enrich, buffer_size, aio, matcher, worker, pool>>

\* sleep(1), sleep(60) or sleep(10) returns; after a back-off `while True`
\* opens the stream again
LoopPrawWake ==
    /\ loops.at["praw"] \in {"pause", "backoff"}
    /\ loops' = [loops EXCEPT !.at["praw"] = "read", !.after = Stepped("praw")]
    /\ UNCHANGED <<monitor_vars, limiter, enrich, buffer_size, aio, matcher, worker, pool>>

\* the answers to one request: status 200 processed, another status, 429
\* (listing only), or an exception (timeout, connection, json(), processing)
PollOutcomes(p) == {"ok", "status", "raises"} \cup (IF p = "json" THEN {"throttled"} ELSE {})

\* `await self.json_limiter.acquire()` returns
PollAcquire(p) ==
    /\ loops.at[p] = "acquire"
    /\ loops' = [loops EXCEPT !.at[p] = "request", !.gate[p] = TRUE, !.after = Stepped(p)]
    /\ UNCHANGED <<monitor_vars, limiter, enrich, buffer_size, aio, matcher, worker, pool>>

\* the request for unit loops.unit[p] of the current cycle
PollRequest(p, o) ==
    /\ loops.at[p] = "request"
    /\ loops' = [loops EXCEPT
          !.at = CASE o = "raises" -> OnException(@, p)
                   [] o = "throttled" -> [@ EXCEPT ![p] = "throttled"]
                   [] OTHER -> [@ EXCEPT ![p] = "unit_sleep"],
          !.asked[p] = @ \cup {loops.unit[p]},
          !.raised = IF o = "raises" THEN @ \cup {p} ELSE @,
          !.gate[p] = FALSE,
          !.after = Stepped(p)]
    /\ UNCHANGED <<monitor_vars, limiter, enrich, buffer_size, aio, matcher, worker, pool>>

\* sleep(30) after a 429 returns: the delay between chunks follows
PollThrottleWake(p) ==
    /\ loops.at[p] = "throttled"
    /\ loops' = [loops EXCEPT !.at[p] = "unit_sleep", !.after = Stepped(p)]
    /\ UNCHANGED <<monitor_vars, limiter, enrich, buffer_size, aio, matcher, worker, pool>>

\* the delay between units returns: the `for` takes the next unit, or ends and
\* the cycle's sleep starts
PollUnitWake(p) ==
    /\ loops.at[p] = "unit_sleep"
    /\ loops' = IF loops.unit[p] < NumUnits
                THEN [loops EXCEPT !.at[p] = LoopStart(p), !.unit[p] = @ + 1,
                                   !.after = Stepped(p)]
                ELSE [loops EXCEPT !.at[p] = "cycle_sleep", !.after = Stepped(p)]
    /\ UNCHANGED <<monitor_vars, limiter, enrich, buffer_size, aio, matcher, worker, pool>>

\* the cycle's sleep, or the sleep of the `except`, returns: `while True` starts
\* the `for` again at the first unit
PollCycleWake(p) ==
    /\ loops.at[p] \in {"cycle_sleep", "backoff"}
    /\ loops' = [loops EXCEPT !.at[p] = LoopStart(p), !.unit[p] = 1, !.asked[p] = {},
                              !.after = Stepped(p)]
    /\ UNCHANGED <<monitor_vars, limiter, enrich, buffer_size, aio, matcher, worker, pool>>

\* sleep(30) returns and the flush, if any, succeeds or raises
LoopFlushTimer(o) ==
    /\ loops.at["flush"] = "sleep"
    /\ loops' = [loops EXCEPT
          !.at = IF o = "raises" THEN OnException(@, "flush") ELSE @,
          !.raised = IF o = "raises" THEN @ \cup {"flush"} ELSE @,
          !.after = Stepped("flush")]
    /\ UNCHANGED <<monitor_vars, limiter, enrich, buffer_size, aio, matcher, worker, pool>>

\* the steps of one task
LoopTaskNext(t) ==
    \/ /\ t = "praw"
       /\ \/ \E o \in PrawOutcomes : LoopPrawRead(o)
          \/ LoopPrawWake
    \/ /\ t \in Pollers
       /\ \/ PollAcquire(t)
          \/ \E o \in PollOutcomes(t) : PollRequest(t, o)
          \/ PollThrottleWake(t)
          \/ PollUnitWake(t)
          \/ PollCycleWake(t)
    \/ /\ t = "flush"
       /\ \E o \in {"ok", "raises"} : LoopFlushTimer(o)

-----------------------------------------------------------------------------
(* The all-in-one RedditMonitor: its tasks as loops guarded by self.running,  *)
(* the buffer as empty or not, and stop_monitoring() called from the main     *)
(* thread.  A position is an await (or, for the streaming task, the blocking  *)
(* read of the stream); the code between two of them runs without suspension. *)

AioTasks == {"rss", "json", "praw"}
AioPollers == {"rss", "json"}
AioEnded == {"exited", "not_started"}

\* variant of PrawStarted: the streaming task is created without a client
PrawStartedAlways(reddit) == TRUE
\* start_monitoring: `if self.reddit: tasks.append(self.monitor_praw_comments())`
PrawStarted(reddit) == reddit

\* the state once start_monitoring has set self.running and the tasks created by
\* gather have run, in the order of the list, up to their first wait: the first
\* request of each poller, the first read of the stream; reddit: whether
\* __init__ was given a client id and secret.
\* Histories: seen_stop, the tasks that have read self.running as False; late, the
\* tasks that appended a draft after that; stop_buf, whether the buffer held a
\* draft when stop_monitoring was called; flushed, whether process_mention_buffer
\* was in progress then or has been called since
AioStarted(reddit) ==
    [running   |-> TRUE,
     stopped   |-> FALSE,
     reddit    |-> reddit,
     at        |-> [t \in AioTasks |->
                       IF t \in AioPollers THEN "request"
                       ELSE IF PrawStarted(reddit) THEN "read" ELSE "not_started"],
     unit      |-> [p \in AioPollers |-> 1],
     buffered  |-> FALSE,
     seen_stop |-> {},
     late      |-> {},
     stop_buf  |-> FALSE,
     flushed   |-> FALSE]

AioInit == aio \in {AioStarted(r) : r \in BOOLEAN}

\* no all-in-one monitor is under test
AioIdle == aio = AioStarted(TRUE)

\* task t reads self.running as False
SeeStop(a, t) == [a EXCEPT !.seen_stop = @ \cup {t}]

\* variant of LoopGuard: `while True`
LoopGuardTrue(running) == TRUE
\* `while self.running:`
LoopGuard(running) == running

\* after the `for` of a poller: `if self.mention_buffer: await
\* self.process_mention_buffer()`, then the sleep before the next cycle
AfterFor(a, p) ==
    IF a.buffered
    THEN [a EXCEPT !.at[p] = "flush", !.flushed = @ \/ a.stopped]
    ELSE [a EXCEPT !.at[p] = "cycle_sleep"]

\* the `for` of a poller comes to unit u: `if not self.running: break`, then the
\* request
ForHead(a, p, u) ==
    IF u > NumUnits THEN AfterFor(a, p)
    ELSE IF ~a.running THEN AfterFor(SeeStop(a, p), p)
    ELSE [a EXCEPT !.at[p] = "request", !.unit[p] = u]

\* a poller evaluates `while self.running`
WhileHead(a, p) ==
    IF LoopGuard(a.running) THEN ForHead(a, p, 1)
    ELSE [SeeStop(a, p) EXCEPT !.at[p] = "exited"]

\* the streaming task evaluates `while self.running` and opens the stream
PrawWhileHead(a) ==
    IF LoopGuard(a.running) THEN [a EXCEPT !.at["praw"] = "read"]
    ELSE [SeeStop(a, "praw") EXCEPT !.at["praw"] = "exited"]

\* `for comment in comment_stream` is a blocking read inside a coroutine: while
\* the streaming task waits in it the event loop runs no other task
LoopFree == aio.at["praw"] # "read"

AioFrame == UNCHANGED <<monitor_vars, limiter, enrich, buffer_size, loops, matcher, worker, pool>>

\* stop_monitoring(), called by the main thread
AioStop ==
    /\ aio.running
    /\ aio' = [aio EXCEPT !.running = FALSE, !.stopped = TRUE, !.stop_buf = aio.buffered,
                          !.flushed = \E t \in AioTasks : aio.at[t] = "flush"]
    /\ AioFrame

AioPollOutcomes(p) ==
    {"drafts", "nothing", "status", "raises"} \cup (IF p = "json" THEN {"throttled"} ELSE {})

\* the request of a poller ends: 200 with matching items (drafts are appended),
\* 200 without, another status, 429 (listing), or an exception, which the inner
\* `except Exception` logs
AioPollResponse(p, o) ==
    /\ aio.at[p] = "request"
    /\ LoopFree
    /\ aio' = [aio EXCEPT
          !.at[p] = IF o = "throttled" THEN "throttled" ELSE "unit_sleep",
          !.buffered = @ \/ o = "drafts",
          !.late = IF o = "drafts" /\ p \in aio.seen_stop THEN @ \cup {p} ELSE @]
    /\ AioFrame

\* sleep(60) after a 429 returns; the inner try ends and the delay between
\* chunks follows
AioThrottleWake(p) ==
    /\ aio.at[p] = "throttled"
    /\ LoopFree
    /\ aio' = [aio EXCEPT !.at[p] = "unit_sleep"]
    /\ AioFrame

\* the delay between units returns
AioUnitWake(p) ==
    /\ aio.at[p] = "unit_sleep"
    /\ LoopFree
    /\ aio' = ForHead(aio, p, aio.unit[p] + 1)
    /\ AioFrame

\* process_mention_buffer called by a poller returns (the buffer is cleared) or
\* raises (the outer `except Exception` sleeps 60 s)
AioPollFlushDone(p, ok) ==
    /\ aio.at[p] = "flush"
    /\ LoopFree
    /\ aio' = IF ok THEN [aio EXCEPT !.at[p] = "cycle_sleep", !.buffered = FALSE]
              ELSE [aio EXCEPT !.at[p] = "backoff"]
    /\ AioFrame

\* the sleep before the next cycle, or the sleep of the outer `except`, returns
AioCycleWake(p) ==
    /\ aio.at[p] \in {"cycle_sleep", "backoff"}
    /\ LoopFree
    /\ aio' = WhileHead(aio, p)
    /\ AioFrame

AioPrawOutcomes == {"none", "comment", "drafts", "full", "raises"}

\* the stream yields an item or raises.  `if not self.running: break` comes
\* first; then None (sleep 1), a comment that adds nothing, one that appends
\* drafts, one whose drafts fill the buffer (len >= 10: flush), or an exception
AioPrawRead(o) ==
    /\ aio.at["praw"] = "read"
    /\ aio' = IF o = "raises" THEN [aio EXCEPT !.at["praw"] = "backoff"]
              ELSE IF ~aio.running THEN PrawWhileHead(SeeStop(aio, "praw"))
              ELSE CASE o = "none" -> [aio EXCEPT !.at["praw"] = "pause"]
                     [] o = "comment" -> aio
                     [] o = "drafts" -> [aio EXCEPT !.buffered = TRUE]
                     [] OTHER -> [aio EXCEPT !.buffered = TRUE, !.at["praw"] = "flush",
                                             !.flushed = @ \/ aio.stopped]
    /\ AioFrame

\* sleep(1) returns: `continue`, the next read
AioPrawWake ==
    /\ aio.at["praw"] = "pause"
    /\ aio' = [aio EXCEPT !.at["praw"] = "read"]
    /\ AioFrame

\* process_mention_buffer called by the streaming task returns or raises
AioPrawFlushDone(ok) ==
    /\ aio.at["praw"] = "flush"
    /\ aio' = IF ok THEN [aio EXCEPT !.at["praw"] = "read", !.buffered = FALSE]
              ELSE [aio EXCEPT !.at["praw"] = "backoff"]
    /\ AioFrame

\* sleep(60) or sleep(30) of an `except` returns
AioPrawBackoffWake ==
    /\ aio.at["praw"] = "backoff"
    /\ aio' = PrawWhileHead(aio)
    /\ AioFrame

\* the steps of one task
AioTaskNext(t) ==
    \/ /\ t \in AioPollers
       /\ \/ \E o \in AioPollOutcomes(t) : AioPollResponse(t, o)
          \/ AioThrottleWake(t)
          \/ AioUnitWake(t)
          \/ \E ok \in BOOLEAN : AioPollFlushDone(t, ok)
          \/ AioCycleWake(t)
    \/ /\ t = "praw"
       /\ \/ \E o \in AioPrawOutcomes : AioPrawRead(o)
          \/ AioPrawWake
          \/ \E ok \in BOOLEAN : AioPrawFlushDone(ok)
          \/ AioPrawBackoffWake

-----------------------------------------------------------------------------
(* find_brands called on its own.  The argument is a str, or None where the    *)
(* caller has no text (Mention.title and Mention.body are Optional[str]).      *)

RECURSIVE WordSeqs(_)
\* the texts of at most n words
WordSeqs(n) ==
    IF n = 0 THEN { <<>> }
    ELSE WordSeqs(n - 1) \cup { Append(t, w) : t \in WordSeqs(n - 1), w \in Vocabulary }

\* the arguments of a call: absent stands for None
MatchTexts ==
    { [absent |-> TRUE, words |-> <<>>] } \cup [absent : {FALSE}, words : WordSeqs(MaxWords)]

\* pattern.search(text) raises TypeError (expected string or bytes-like object)
\* when text is None
SearchRaises(text) == text.absent

\* find_brands(text) is about to be called
MatcherInit ==
    matcher \in [text : MatchTexts, at : {"call"}, result : {<<>>}]

\* no call of find_brands is under test
MatcherIdle ==
    matcher = [text |-> [absent |-> FALSE, words |-> <<>>], at |-> "call", result |-> <<>>]

\* find_brands(text): the loop over self.brands.items(), up to the return or to
\* the exception of the first pattern.search
FindBrandsCall ==
    /\ matcher.at = "call"
    /\ matcher' = IF SearchRaises(matcher.text)
                  THEN [matcher EXCEPT !.at = "raised"]
                  ELSE [matcher EXCEPT !.at = "returned",
                                       !.result = find_brands(matcher.text.words)]
    /\ UNCHANGED <<monitor_vars, limiter, enrich, buffer_size, loops, aio, worker, pool>>

-----------------------------------------------------------------------------
(* stream_worker.py: one thread in `while True`, reading the submission stream *)
(* and the comment stream in turn; KeyboardInterrupt can arrive between any    *)
(* two statements.  An item is its id and whether keyword_pattern matches.     *)

WorkerKinds == {"post", "comment"}

\* seen_ids = set(); all_data = []; the file is not written yet.
\* at: the statement the loop is at; item: the id appended and not yet added to
\* seen_ids; saved: the rows of the latest to_csv; dropped, swallowed
\* (histories): an item was found in seen_ids, an exception was passed over
WorkerStart ==
    [at |-> "post", seen |-> {}, all_data |-> <<>>, saved |-> <<>>, item |-> None,
     dropped |-> FALSE, swallowed |-> FALSE]

\* after the try of posts comes the try of comments, then the auto-save test
AfterTry(kind) == IF kind = "post" THEN "comment" ELSE "save"

\* variant of WorkerSeen: the test of seen_ids left out
WorkerSeenNever(seen, id) == FALSE
\* not (post.id not in seen_ids)
WorkerSeen(seen, id) == id \in seen

\* next(post_stream) or next(comment_stream) and the body of its try, up to
\* all_data.append: the read or the construction of the row raises (except
\* Exception: pass), or the item is in seen_ids, or it does not match, or its
\* row is appended
WorkerRead(kind, raises, id, matches) ==
    /\ worker.at = kind
    /\ worker' =
          IF raises THEN [worker EXCEPT !.at = AfterTry(kind), !.swallowed = TRUE]
          ELSE IF WorkerSeen(worker.seen, id)
               THEN [worker EXCEPT !.at = AfterTry(kind), !.dropped = TRUE]
          ELSE IF ~matches THEN [worker EXCEPT !.at = AfterTry(kind)]
          ELSE [worker EXCEPT !.all_data = Append(@, [type |-> kind, id |-> id]),
                              !.item = id,
                              !.at = IF kind = "post" THEN "post_add" ELSE "comment_add"]
    /\ Len(worker'.all_data) <= MaxRows
    /\ UNCHANGED <<monitor_vars, limiter, enrich, buffer_size, loops, aio, matcher, pool>>

\* print(...); seen_ids.add(post.id)
WorkerMarkSeen ==
    /\ worker.at \in {"post_add", "comment_add"}
    /\ worker' = [worker EXCEPT !.seen = @ \cup {worker.item},
                                !.item = None,
                                !.at = IF worker.at = "post_add" THEN "comment" ELSE "save"]
    /\ UNCHANGED <<monitor_vars, limiter, enrich, buffer_size, loops, aio, matcher, pool>>

\* if now - last_save_time > SAVE_INTERVAL: df.to_csv(OUTPUT_FILE); an exception
\* of to_csv is caught by no except and ends the program
WorkerAutoSave(due, ok) ==
    /\ worker.at = "save"
    /\ worker' = IF ~due THEN [worker EXCEPT !.at = "post"]
                 ELSE IF ok THEN [worker EXCEPT !.at = "post", !.saved = worker.all_data]
                 ELSE [worker EXCEPT !.at = "crashed"]
    /\ UNCHANGED <<monitor_vars, limiter, enrich, buffer_size, loops, aio, matcher, pool>>

\* except KeyboardInterrupt: the final save
WorkerStop ==
    /\ worker.at \notin {"stopped", "crashed"}
    /\ worker' = [worker EXCEPT !.at = "stopped", !.saved = worker.all_data]
    /\ UNCHANGED <<monitor_vars, limiter, enrich, buffer_size, loops, aio, matcher, pool>>

\* no stream_worker is under test
WorkerIdle == worker = WorkerStart

-----------------------------------------------------------------------------
(* improved_app.py: request handlers on the threads of the server, sharing     *)
(* db_pool.  A handler is followed from the request to its response.           *)

Threads == 1..NumThreads
Routes == {"health", "data", "delete"}

\* a thread between requests; resp is the status of its latest response
IdleThread(resp) == [at |-> "idle", route |-> None, resp |-> resp]

\* pooled: db_pool is a ThreadedConnectionPool (else None: the pool could not be
\* created); out: connections handed out by getconn and not given to putconn,
\* or opened by connect and not closed
PoolStart(pooled) ==
    [pooled |-> pooled, out |-> 0, th |-> [t \in Threads |-> IdleThread(None)]]

\* the except that ends a handler whose body raised: health_check answers 503
\* itself, handle_db_errors answers 500 for the others
ErrorStatus(route) == IF route = "health" THEN 503 ELSE 500

\* variant of return_db_connection: the connection is left out
return_db_connection_drop(out) == out
\* db_pool.putconn(conn), or conn.close()
return_db_connection(out) == out - 1

\* the handler up to get_db_connection: /data with a brand that is not allowed
\* and /delete without id answer 400
Request(t, route, valid) ==
    /\ pool.th[t].at = "idle"
    /\ pool' = IF route # "health" /\ ~valid
               THEN [pool EXCEPT !.th[t] = IdleThread(400)]
               ELSE [pool EXCEPT !.th[t] = [at |-> "getconn", route |-> route, resp |-> None]]
    /\ UNCHANGED <<monitor_vars, limiter, enrich, buffer_size, loops, aio, matcher, worker>>

\* get_db_connection(): getconn raises PoolError when maxconn connections are
\* out, getconn and connect raise when the server refuses the connection
GetConn(t, ok) ==
    /\ pool.th[t].at = "getconn"
    /\ pool' = IF ok /\ pool.out < PoolMax
               THEN [pool EXCEPT !.out = @ + 1, !.th[t].at = "query"]
               ELSE [pool EXCEPT !.th[t] = IdleThread(ErrorStatus(pool.th[t].route))]
    /\ UNCHANGED <<monitor_vars, limiter, enrich, buffer_size, loops, aio, matcher, worker>>

\* conn.cursor() up to the response.  health_check and delete_mention return the
\* connection after their statements; a statement that raises leaves for the
\* except.  paginate_results reads cur.fetchone()[0] from a RealDictCursor row,
\* which has no key 0, so it raises after the count query at the latest.
Query(t, ok, found) ==
    /\ pool.th[t].at = "query"
    /\ LET route == pool.th[t].route IN
       pool' = IF ok /\ route # "data"
               THEN [pool EXCEPT !.out = return_db_connection(@),
                                 !.th[t] = IdleThread(IF route = "delete" /\ ~found
                                                      THEN 404 ELSE 200)]
               ELSE [pool EXCEPT !.th[t] = IdleThread(ErrorStatus(route))]
    /\ UNCHANGED <<monitor_vars, limiter, enrich, buffer_size, loops, aio, matcher, worker>>

\* no improved_app is under test
PoolIdle == pool = PoolStart(TRUE)

\* none of the programs beside the monitors is under test
AppsIdle == MatcherIdle /\ WorkerIdle /\ PoolIdle

\* self.buffer_size = 50, scaled
AuxInit == LimiterInit /\ EnrichIdle /\ buffer_size = BufferSize /\ LoopsInit /\ AioIdle
           /\ AppsIdle

\* analyze(text) runs up to its return or up to the request
AnalyzeCall ==
    /\ enrich.at = "call"
    /\ enrich' = IF ReturnsBeforeRequest(enrich.v, enrich.token, enrich.text)
                 THEN [enrich EXCEPT !.at = "returned", !.result = "neutral"]
                 ELSE [enrich EXCEPT !.at = "request", !.requested = TRUE]
    /\ UNCHANGED <<monitor_vars, limiter, buffer_size, loops, aio, matcher, worker, pool>>

\* the request ends in reply
AnalyzeReply(reply) ==
    /\ enrich.at = "request"
    /\ enrich' = [enrich EXCEPT !.at = "returned", !.reply = reply,
                                !.result = AnalyzeOnReply(reply)]
    /\ UNCHANGED <<monitor_vars, limiter, buffer_size, loops, aio, matcher, worker, pool>>

-----------------------------------------------------------------------------
(* UnifiedRedditMonitor: state after __init__, before run() *)

InitMonitor ==
    /\ variant = "postgres"
    /\ store \in InitStores
    /\ seen_ids = get_existing_ids(store)
    /\ mention_buffer = <<>>
    /\ db_up \in BOOLEAN
    /\ pc = [t \in FlushCallers |-> IF t = "praw" THEN "read" ELSE "sleep"]
    /\ fidx = [t \in FlushCallers |-> 0]
    /\ fcur = [t \in FlushCallers |-> 0]
    /\ fstart = [t \in FlushCallers |-> 0]
    /\ next_uid = 1
    /\ draft_passes = [i \in Ids |-> 0]
    /\ fed = [a \in FeedAdapters |-> <<>>]
    /\ dup_dropped = FALSE
    /\ upserted = [u \in 1..MaxMentions |-> 0]
    /\ last_upsert = <<>>

Init == InitMonitor /\ track = "none" /\ cur_item = NoItem /\ AuxInit

\* an adapter leaves the processing of one response in adapter state st
Commit(st) ==
    /\ st.uid <= MaxMentions + 1
    /\ seen_ids' = st.seen
    /\ next_uid' = st.uid
    /\ draft_passes' = st.passes
    /\ dup_dropped' = IF track = "dedup" THEN st.dropped ELSE dup_dropped
    /\ UNCHANGED track

\* the feed of adapter a yields the items of these ids, in this order
Fed(a, ids) ==
    IF track = "order"
    THEN /\ Len(fed[a]) + Len(ids) <= MaxFed
         /\ fed' = [fed EXCEPT ![a] = @ \o ids]
    ELSE UNCHANGED fed

NoFlush == /\ last_upsert' = <<>>
           /\ UNCHANGED <<store, upserted, fidx, fcur, fstart>>

Goto(t, p) == pc' = [pc EXCEPT ![t] = p]

(* stream_praw_comments: "read" is the wait for the next item of the stream and *)
(* for praw_limiter.acquire(); the comment is examined only after both, and its *)
(* content does not depend on the monitor, so it is drawn when it is examined   *)

\* variant of AfterNone: None is handled as an error of the stream
AfterNoneBackoff == "backoff"
\* if comment is None: await asyncio.sleep(1)
AfterNone == "pause"

\* the stream yields None (pause_after): await asyncio.sleep(1); continue
PrawReadNone ==
    /\ pc["praw"] = "read"
    /\ Goto("praw", AfterNone)
    /\ NoFlush
    /\ UNCHANGED <<seen_ids, mention_buffer, db_up, next_uid, draft_passes, fed, dup_dropped, track,
                   variant, cur_item, aux>>

PrawWake ==
    /\ pc["praw"] = "pause"
    /\ Goto("praw", "read")
    /\ NoFlush
    /\ UNCHANGED <<seen_ids, mention_buffer, db_up, next_uid, draft_passes, fed, dup_dropped, track,
                   variant, cur_item, aux>>

\* the read raises (TooManyRequests or any Exception): sleep, then the outer
\* `while True` opens a new stream
PrawReadError ==
    /\ pc["praw"] = "read"
    /\ Goto("praw", "backoff")
    /\ NoFlush
    /\ UNCHANGED <<seen_ids, mention_buffer, db_up, next_uid, draft_passes, fed, dup_dropped, track,
                   variant, cur_item, aux>>

PrawRestart ==
    /\ pc["praw"] = "backoff"
    /\ Goto("praw", "read")
    /\ NoFlush
    /\ UNCHANGED <<seen_ids, mention_buffer, db_up, next_uid, draft_passes, fed, dup_dropped, track,
                   variant, cur_item, aux>>

\* the stream yields comment c and praw_limiter.acquire() returns: dedup check,
\* matching, appends, and the size-triggered flush up to its first suspension
PrawHandle(c) ==
    /\ pc["praw"] = "read"
    /\ UNCHANGED <<db_up, variant, aux>>
    /\ Fed("praw", <<c.id>>)
    /\ LET st == PrawProcessComment(AdapterState, c) IN
       /\ Commit(st)
       /\ IF c.id \notin seen_ids /\ Len(st.buffer) >= buffer_size
          THEN process_mention_buffer("praw", st.buffer, "read", "backoff")
          ELSE \* `continue` of a seen id, or the buffer is below buffer_size
               /\ mention_buffer' = st.buffer
               /\ NoFlush
               /\ UNCHANGED pc

PrawComment(c) == PrawHandle(c) /\ UNCHANGED cur_item

PrawAnalyzeReturn(label) == AnalyzeReturn("praw", label, "read", "backoff")

(* monitor_json_api and monitor_rss_feeds touch the shared state only while     *)
(* handling a 200 response, which does not suspend; between two responses they  *)
(* wait (sleeps, json_limiter.acquire(), the request), whatever the outcome of  *)
(* the requests in between                                                      *)

\* status 200: _process_json_comments(data)
JsonHandle(children) ==
    /\ LET st == process_json_comments(AdapterState, children) IN
       /\ Commit(st)
       /\ mention_buffer' = st.buffer
    /\ NoFlush
    /\ Fed("json", [i \in DOMAIN children |-> children[i].id])
    /\ UNCHANGED <<db_up, pc, variant, aux>>

JsonResponse(children) == JsonHandle(children) /\ UNCHANGED cur_item

\* status 200: _process_rss_feed(rss_text, subreddit); an exception inside is
\* swallowed there and ends the document early (a shorter list of entries)
RssHandle(entries) ==
    /\ LET st == process_rss_feed(AdapterState, entries) IN
       /\ Commit(st)
       /\ mention_buffer' = st.buffer
    /\ NoFlush
    /\ Fed("rss", [i \in DOMAIN entries |-> PostId(entries[i].link)])
    /\ UNCHANGED <<db_up, pc, variant, aux>>

RssResponse(entries) == RssHandle(entries) /\ UNCHANGED cur_item

(* periodic_buffer_flush *)

\* asyncio.sleep(30) returns: if self.mention_buffer: await process_mention_buffer().
\* An exception of insert_mentions leaves the `while True` and ends the task.
FlushWake ==
    /\ pc["flush"] = "sleep"
    /\ IF mention_buffer # <<>>
       THEN process_mention_buffer("flush", mention_buffer, "sleep", "dead")
       ELSE /\ NoFlush
            /\ UNCHANGED <<mention_buffer, pc>>
    /\ UNCHANGED <<seen_ids, db_up, next_uid, draft_passes, fed, dup_dropped, track, variant, cur_item, aux>>

FlushAnalyzeReturn(label) == AnalyzeReturn("flush", label, "sleep", "dead")

(* the database server *)

DbFail ==
    /\ db_up
    /\ db_up' = FALSE
    /\ NoFlush
    /\ UNCHANGED <<seen_ids, mention_buffer, pc, next_uid,
                   draft_passes, fed, dup_dropped, track, variant, cur_item, aux>>

DbRecover ==
    /\ ~db_up
    /\ db_up' = TRUE
    /\ NoFlush
    /\ UNCHANGED <<seen_ids, mention_buffer, pc, next_uid,
                   draft_passes, fed, dup_dropped, track, variant, cur_item, aux>>

\* stream_praw_comments over a stream that yields comments of C
PrawTask(C) ==
    \/ \E c \in C : PrawComment(c)
    \/ PrawReadNone
    \/ PrawWake
    \/ PrawReadError
    \/ PrawRestart
    \/ \E l \in AnalyzeOutcomes : PrawAnalyzeReturn(l)

PrawNext == PrawTask(Comments)

\* monitor_json_api and monitor_rss_feeds over feeds that return documents of D
JsonTask(D) == \E cs \in D : JsonResponse(cs)

RssTask(D) == \E es \in D : RssResponse(es)

JsonNext == JsonTask(Docs(Children))

RssNext == RssTask(Docs(Entries))

FlushNext ==
    \/ FlushWake
    \/ \E l \in AnalyzeOutcomes : FlushAnalyzeReturn(l)

Next ==
    \/ PrawNext
    \/ JsonNext
    \/ RssNext
    \/ FlushNext
    \/ DbFail
    \/ DbRecover

Spec == Init /\ [][Next]_vars

\* the same monitor, with the rejected presentations recorded
InitHist == InitMonitor /\ track = "dedup" /\ cur_item = NoItem /\ AuxInit

SpecHist == InitHist /\ [][Next]_vars

\* the same monitor, with the buffer at the start of every flush recorded
InitFlushHist == InitMonitor /\ track = "flush" /\ cur_item = NoItem /\ AuxInit

SpecFlushHist == InitFlushHist /\ [][Next]_vars

(* FairSpec: the monitor on feeds whose items match at most one brand and whose *)
(* documents hold at most one item.  asyncio runs every task that is ready:     *)
(* each task's next step is eventually taken.  What the feeds, the enrichment   *)
(* service and the database answer is not scheduled.                            *)

FairTexts == { <<"jacket">>, <<"BADINKA.com">> }

FairComments == { c \in Comments : c.body \in FairTexts }

FairJsonDocs == {<<>>} \cup { <<c>> : c \in { d \in Children : d.body \in FairTexts } }

FairRssDocs == {<<>>} \cup { <<e>> : e \in { d \in Entries : d.title \in FairTexts } }

FairNext ==
    \/ PrawTask(FairComments)
    \/ JsonTask(FairJsonDocs)
    \/ RssTask(FairRssDocs)
    \/ FlushNext
    \/ DbFail
    \/ DbRecover

FairSpec ==
    /\ Init
    /\ [][FairNext]_vars
    /\ WF_vars(PrawTask(FairComments))
    /\ WF_vars(JsonTask(FairJsonDocs))
    /\ WF_vars(RssTask(FairRssDocs))
    /\ WF_vars(FlushNext)

(* FairSpecBelow: FairSpec for a monitor whose buffer_size is one more, so that *)
(* the buffer can hold drafts and be below buffer_size                          *)

InitBelow ==
    /\ InitMonitor
    /\ track = "none"
    /\ cur_item = NoItem
    /\ LimiterInit
    /\ EnrichIdle
    /\ buffer_size = BufferSize + 1
    /\ LoopsInit
    /\ AioIdle
    /\ AppsIdle

FairSpecBelow ==
    /\ InitBelow
    /\ [][FairNext]_vars
    /\ WF_vars(PrawTask(FairComments))
    /\ WF_vars(JsonTask(FairJsonDocs))
    /\ WF_vars(RssTask(FairRssDocs))
    /\ WF_vars(FlushNext)

\* documents of two different items, besides those of Docs
OrderDocs(S) == Docs(S) \cup { <<c, d>> : c, d \in { e \in S : e.id # None } }

\* the same monitor, with the order recorded in which each feed yields its
\* items: the streaming and the listing adapter and the periodic flush, on a
\* database that is up; the listing feed returns documents of two different
\* items too
InitOrder == InitMonitor /\ store = {} /\ db_up /\ track = "order" /\ cur_item = NoItem
             /\ AuxInit

NextOrder ==
    \/ \E c \in FairComments : PrawComment(c)
    \/ \E l \in AnalyzeOutcomes : PrawAnalyzeReturn(l)
    \/ JsonTask(OrderDocs({ d \in Children : d.body \in FairTexts }))
    \/ FlushNext

SpecOrder == InitOrder /\ [][NextOrder]_vars

-----------------------------------------------------------------------------
(* SpecRss: the syndication adapter and the periodic flush alone, with the     *)
(* rejected presentations recorded.  A feed document lists no entry, one       *)
(* entry, one entry twice, or two entries of different links.                  *)

RssEntries == { e \in Entries : e.title \in FairTexts }

RssDocs == Docs(RssEntries) \cup { <<c, d>> : c, d \in RssEntries }

NextRss ==
    \/ RssTask(RssDocs)
    \/ FlushNext
    \/ DbFail
    \/ DbRecover

SpecRss == InitHist /\ [][NextRss]_vars

-----------------------------------------------------------------------------
(* SpecItem: the adapters alone, one item per step.  An item is fetched (the   *)
(* adapter is suspended in the read, the limiter or the request) and is then   *)
(* handled as in Spec; the streaming task's own flushes run as in Spec.        *)

\* texts of items, with a body that matches a brand in fewer than 10 characters
ItemTexts == Texts \cup { <<"badinka">> }

Items ==
    [adapter : {"praw", "json"}, id : Ids, link : {<<>>}, title : {Blank},
     body : ItemTexts, score : FeedScores]
    \cup
    [adapter : {"rss"}, id : {None}, link : Links, title : ItemTexts,
     body : {Blank}, score : {0}]

\* the text the adapter matches brands against, and the id it deduplicates on
ItemText(it) == IF it.adapter = "rss" THEN Join(it.title, it.body) ELSE it.body
ItemId(it) == IF it.adapter = "rss" THEN PostId(it.link) ELSE it.id

ItemArrive(it) ==
    /\ cur_item = NoItem
    /\ it.adapter = "praw" => pc["praw"] = "read"
    /\ cur_item' = it
    /\ NoFlush
    /\ UNCHANGED <<seen_ids, mention_buffer, db_up, pc, next_uid, draft_passes, fed, dup_dropped,
                   track, variant, aux>>

ItemHandle ==
    /\ cur_item # NoItem
    /\ cur_item' = NoItem
    /\ CASE cur_item.adapter = "praw" ->
                PrawHandle([id |-> cur_item.id, body |-> cur_item.body,
                            score |-> cur_item.score])
         [] cur_item.adapter = "json" ->
                JsonHandle(<<[id |-> cur_item.id, body |-> cur_item.body,
                              score |-> cur_item.score]>>)
         [] cur_item.adapter = "rss" ->
                RssHandle(<<[link |-> cur_item.link, title |-> cur_item.title,
                             content |-> cur_item.body]>>)

NextItem ==
    \/ \E it \in Items : ItemArrive(it)
    \/ ItemHandle
    \/ \E l \in AnalyzeOutcomes : PrawAnalyzeReturn(l)
    \/ PrawRestart

SpecItem == Init /\ [][NextItem]_vars

(* SpecItemDb: SpecItem on a database that fails and recovers *)

NextItemDb ==
    \/ NextItem
    \/ DbFail
    \/ DbRecover

SpecItemDb == Init /\ [][NextItemDb]_vars

-----------------------------------------------------------------------------
(* SpecDB: DatabaseManager.insert_mentions called with the batches that flushes *)
(* hand to it, on the PostgreSQL table (unified_reddit_monitor.py) and on the   *)
(* SQLite table (all_in_one_reddit_monitor.py)                                  *)

DbTexts == Texts \cup { <<"#iHeartRaves">> }

DbComments == [id : Ids, body : DbTexts, score : Scores]

\* what process_mention_buffer can leave in a batch's sentiment fields: the label of
\* an enrichment call, or None for drafts it handed over without enriching them
BatchSentiments == {None, "positive", "negative"}

\* the drafts of comment c, as a flush hands them to insert_mentions
BatchOf(c, label) ==
    LET st == PrawProcessComment([seen |-> {}, buffer |-> <<>>, uid |-> 1,
                                  passes |-> [i \in Ids |-> 0], dropped |-> FALSE], c)
    IN [i \in DOMAIN st.buffer |-> [st.buffer[i] EXCEPT !.sentiment = label]]

InitDB ==
    /\ variant \in {"postgres", "sqlite"}
    /\ store = {}
    /\ seen_ids = {}
    /\ mention_buffer = <<>>
    /\ db_up = TRUE
    /\ pc = [t \in FlushCallers |-> IF t = "praw" THEN "read" ELSE "sleep"]
    /\ fidx = [t \in FlushCallers |-> 0]
    /\ fcur = [t \in FlushCallers |-> 0]
    /\ fstart = [t \in FlushCallers |-> 0]
    /\ next_uid = 1
    /\ draft_passes = [i \in Ids |-> 0]
    /\ fed = [a \in FeedAdapters |-> <<>>]
    /\ dup_dropped = FALSE
    /\ track = "none"
    /\ upserted = [u \in 1..MaxMentions |-> 0]
    /\ last_upsert = <<>>
    /\ cur_item = NoItem
    /\ AuxInit

\* self.db.insert_mentions(batch)
DbInsert(c, label) ==
    LET ms == BatchOf(c, label)
        r == insert_mentions(store, ms, db_up, variant)
    IN /\ store' = r.store
       /\ last_upsert' = <<[batch |-> ms, ok |-> r.ok]>>
       /\ UNCHANGED <<seen_ids, mention_buffer, db_up, pc, fidx, fcur, fstart, next_uid, draft_passes, fed,
                      dup_dropped, track, upserted, variant, cur_item, aux>>

NextDB ==
    \/ \E c \in DbComments, l \in BatchSentiments : DbInsert(c, l)
    \/ DbFail
    \/ DbRecover

SpecDB == InitDB /\ [][NextDB]_vars

-----------------------------------------------------------------------------
(* SpecAnalyze: one call of SentimentAnalyzer.analyze, of either monitor *)

InitAnalyze == InitMonitor /\ store = {} /\ db_up /\ track = "none" /\ cur_item = NoItem
               /\ LimiterInit /\ EnrichInit /\ buffer_size = BufferSize /\ LoopsInit
               /\ AioIdle /\ AppsIdle

NextAnalyze ==
    \/ AnalyzeCall
    \/ \E reply \in Replies : AnalyzeReply(reply)

SpecAnalyze == InitAnalyze /\ [][NextAnalyze]_vars

-----------------------------------------------------------------------------
(* SpecLimiter: one RateLimiter called by NumCallers coroutines *)

NextLimiter ==
    \/ \E c \in Callers : LimAcquire(c)
    \/ \E c \in Callers : LimWake(c)
    \/ LimTick

\* the monitor is constructed and not started
InitLimiter == Init /\ store = {} /\ db_up

SpecLimiter == InitLimiter /\ [][NextLimiter]_vars

(* FairLimiter: the same limiter over unbounded time.  Time advances, and the  *)
(* event loop resumes every caller whose sleep has ended; when callers call    *)
(* acquire() is up to them.                                                    *)

NextFairLimiter ==
    \/ \E c \in Callers : LimAcquire(c)
    \/ \E c \in Callers : LimWake(c)
    \/ LimPass

FairLimiter ==
    /\ InitLimiter
    /\ [][NextFairLimiter]_vars
    /\ WF_vars(LimPass)
    /\ \A c \in Callers : WF_vars(LimWake(c))

-----------------------------------------------------------------------------
(* SpecLoops: the four tasks of run() as loops over units of work; FairLoops: *)
(* the event loop resumes every task whose sleep or request has completed     *)

NextLoops ==
    \/ \E o \in PrawOutcomes : LoopPrawRead(o)
    \/ LoopPrawWake
    \/ \E p \in Pollers : PollAcquire(p)
    \/ \E p \in Pollers : \E o \in PollOutcomes(p) : PollRequest(p, o)
    \/ \E p \in Pollers : PollThrottleWake(p)
    \/ \E p \in Pollers : PollUnitWake(p)
    \/ \E p \in Pollers : PollCycleWake(p)
    \/ \E o \in {"ok", "raises"} : LoopFlushTimer(o)

\* run() has created the four tasks
InitLoops == InitMonitor /\ store = {} /\ db_up /\ track = "none" /\ cur_item = NoItem
             /\ AuxInit

SpecLoops == InitLoops /\ [][NextLoops]_vars

FairLoops ==
    /\ InitLoops
    /\ [][NextLoops]_vars
    /\ \A t \in LoopTasks : WF_vars(LoopTaskNext(t))

-----------------------------------------------------------------------------
(* SpecAio: the all-in-one monitor from start_monitoring on; FairAio: the     *)
(* event loop resumes every task whose sleep, read or request has completed   *)

NextAio ==
    \/ AioStop
    \/ \E p \in AioPollers : \E o \in AioPollOutcomes(p) : AioPollResponse(p, o)
    \/ \E p \in AioPollers : AioThrottleWake(p)
    \/ \E p \in AioPollers : AioUnitWake(p)
    \/ \E p \in AioPollers : \E ok \in BOOLEAN : AioPollFlushDone(p, ok)
    \/ \E p \in AioPollers : AioCycleWake(p)
    \/ \E o \in AioPrawOutcomes : AioPrawRead(o)
    \/ AioPrawWake
    \/ \E ok \in BOOLEAN : AioPrawFlushDone(ok)
    \/ AioPrawBackoffWake

InitAio == InitMonitor /\ store = {} /\ db_up /\ track = "none" /\ cur_item = NoItem
           /\ LimiterInit /\ EnrichIdle /\ buffer_size = BufferSize /\ LoopsInit /\ AioInit
           /\ AppsIdle

SpecAio == InitAio /\ [][NextAio]_vars

FairAio ==
    /\ InitAio
    /\ [][NextAio]_vars
    /\ \A t \in AioTasks : WF_vars(AioTaskNext(t))

-----------------------------------------------------------------------------
(* SpecMatch: one call of find_brands on a monitor that is constructed and not *)
(* started                                                                     *)

NextMatch == FindBrandsCall

InitMatch == InitMonitor /\ store = {} /\ db_up /\ track = "none" /\ cur_item = NoItem
             /\ LimiterInit /\ EnrichIdle /\ buffer_size = BufferSize /\ LoopsInit /\ AioIdle
             /\ MatcherInit /\ WorkerIdle /\ PoolIdle

SpecMatch == InitMatch /\ [][NextMatch]_vars

-----------------------------------------------------------------------------
(* SpecWorker: stream_worker.py from its first read to its end *)

NextWorker ==
    \/ \E kind \in WorkerKinds, raises \in BOOLEAN, id \in Ids, matches \in BOOLEAN :
          WorkerRead(kind, raises, id, matches)
    \/ WorkerMarkSeen
    \/ \E due \in BOOLEAN, ok \in BOOLEAN : WorkerAutoSave(due, ok)
    \/ WorkerStop

InitWorker == InitMonitor /\ store = {} /\ db_up /\ track = "none" /\ cur_item = NoItem
              /\ AuxInit

SpecWorker == InitWorker /\ [][NextWorker]_vars

-----------------------------------------------------------------------------
(* SpecPool: requests to /health, /data and /delete of improved_app.py *)

NextPool ==
    \/ \E t \in Threads, route \in Routes, valid \in BOOLEAN : Request(t, route, valid)
    \/ \E t \in Threads, ok \in BOOLEAN : GetConn(t, ok)
    \/ \E t \in Threads, ok \in BOOLEAN, found \in BOOLEAN : Query(t, ok, found)

InitPool == InitMonitor /\ store = {} /\ db_up /\ track = "none" /\ cur_item = NoItem
            /\ LimiterInit /\ EnrichIdle /\ buffer_size = BufferSize /\ LoopsInit /\ AioIdle
            /\ MatcherIdle /\ WorkerIdle
            /\ \E pooled \in BOOLEAN : pool = PoolStart(pooled)

SpecPool == InitPool /\ [][NextPool]_vars

-----------------------------------------------------------------------------
(* Properties *)

Uids(buf) == [i \in DOMAIN buf |-> buf[i].uid]
InBuffer(buf, u) == \E i \in DOMAIN buf : buf[i].uid = u
IsPrefix(a, b) == Len(a) <= Len(b) /\ SubSeq(b, 1, Len(a)) = a

UpsertCalled == last_upsert # <<>>
UpsertOk == last_upsert # <<>> /\ last_upsert[1].ok
UpsertFailed == last_upsert # <<>> /\ ~last_upsert[1].ok
UpsertBatch == last_upsert[1].batch

FlushInProgress(t) == pc[t] = "analyze"

\* C1: for every id, drafts are appended to the buffer for at most one presentation
\* of that id, whichever adapters present it and however their steps interleave
C1_DedupOnePass ==
    \A id \in Ids : draft_passes[id] <= 1

\* C1 witness: c1, the only id seen so far, was drafted once by the streaming adapter
\* and a later presentation of it was rejected by the dedup check
C1_Witness ==
    /\ dup_dropped
    /\ seen_ids = {"c1"}
    /\ draft_passes["c1"] = 1
    /\ \E i \in DOMAIN mention_buffer :
          mention_buffer[i].id = "c1" /\ mention_buffer[i].source = "praw"

\* C2: at most one execution of process_mention_buffer is in progress
C2_FlushExclusive ==
    ~(FlushInProgress("praw") /\ FlushInProgress("flush"))

\* C3 (never lost): a draft leaves the buffer only in a step whose insert_mentions
\* call succeeds with that draft in its batch
C3_NeverLostStep ==
    \A i \in DOMAIN mention_buffer :
        ~InBuffer(mention_buffer', mention_buffer[i].uid)
            => /\ last_upsert' # <<>>
               /\ last_upsert'[1].ok
               /\ InBuffer(last_upsert'[1].batch, mention_buffer[i].uid)

\* C3 (never double-sent): no draft is part of more than one successful upsert
C3_NeverDoubleSent ==
    \A u \in DOMAIN upserted : upserted[u] <= 1

\* C3: across any interleaving of adds and flushes, no draft is removed from the
\* buffer without having been part of a successful upsert, and no draft is part of
\* more than one successful upsert
C3_NoLossNoDoubleSend ==
    []C3_NeverDoubleSent /\ [][C3_NeverLostStep]_vars

\* C3 witness: a batch of two drafts of different items was upserted successfully
\* while the other flush caller was suspended in its own flush
C3_Witness ==
    /\ UpsertOk
    /\ Len(UpsertBatch) = 2
    /\ \E t \in FlushCallers : FlushInProgress(t)
    /\ \A i \in DOMAIN UpsertBatch : upserted[UpsertBatch[i].uid] = 1

\* C4: every Mention in a batch handed to insert_mentions has a sentiment
C4_UpsertEnriched ==
    UpsertCalled => \A i \in DOMAIN UpsertBatch : UpsertBatch[i].sentiment # None

\* a call of analyze for the Mention object u is outstanding or has returned into u
AnalyzeCalledFor(u) ==
    \/ \E t \in FlushCallers : FlushInProgress(t) /\ fcur[t] = u
    \/ \E i \in DOMAIN mention_buffer :
          mention_buffer[i].uid = u /\ mention_buffer[i].sentiment # None

\* caller t suspends on a new call of analyze in this step
StartsAnalyze(t) ==
    /\ pc'[t] = "analyze"
    /\ pc[t] # "analyze" \/ fidx'[t] # fidx[t]

\* C5 (one call): analyze is not called for a draft it was already called for
C5_CalledOnceStep ==
    \A t \in FlushCallers : StartsAnalyze(t) => ~AnalyzeCalledFor(fcur'[t])

\* C5 (never regressed): a sentiment that is set keeps its value
C5_SentimentKeptStep ==
    \A i \in DOMAIN mention_buffer :
        \A j \in DOMAIN mention_buffer' :
            (mention_buffer'[j].uid = mention_buffer[i].uid
                /\ mention_buffer[i].sentiment # None)
            => mention_buffer'[j].sentiment = mention_buffer[i].sentiment

\* C5: for every draft the enricher is called at most once and the sentiment field
\* changes at most once, from absent to a label
C5_SentimentSetOnce ==
    [][C5_CalledOnceStep /\ C5_SentimentKeptStep]_vars

\* C6: when insert_mentions fails during a flush, every draft that was in the buffer
\* is still in the buffer, in the same order, and the store is unchanged
C6_FailedUpsertKeepsBuffer ==
    [][ (last_upsert' # <<>> /\ ~last_upsert'[1].ok)
            => /\ IsPrefix(Uids(mention_buffer), Uids(mention_buffer'))
               /\ mention_buffer' = last_upsert'[1].batch
               /\ mention_buffer' # <<>>
               /\ store' = store ]_vars

\* C6 witness: an upsert of a non-empty batch has just failed
C6_Witness ==
    /\ UpsertFailed
    /\ UpsertBatch # <<>>
    /\ mention_buffer = UpsertBatch

-----------------------------------------------------------------------------
(* Flush retry (FairSpec) *)

\* insert_mentions would commit the batch the buffer holds
StoreAccepts ==
    /\ db_up
    /\ ~(variant = "postgres" /\ HasDuplicateIds(mention_buffer))

\* C7: a flush that fails is retried: if from some point on the store accepts the
\* upserts, every draft that was in the buffer when insert_mentions failed is
\* eventually part of a successful upsert, whatever the size of the buffer
C7_FailedFlushRetried ==
    (<>[]StoreAccepts)
        => \A u \in 1..MaxMentions :
              [](UpsertFailed /\ InBuffer(mention_buffer, u) => <>(upserted[u] >= 1))

-----------------------------------------------------------------------------
(* Store (SpecDB) *)

\* C8: once the stored record of an id has a sentiment, no later insert_mentions
\* call leaves the record of that id without one
C8_SentimentMonotonic ==
    [][ \A r \in store : r.sentiment # None
            => \A r2 \in store' : r2.id = r.id => r2.sentiment # None ]_vars

\* C9: after insert_mentions has accepted the drafts of one item that matched two
\* brands, the store holds a record of that id for each of the two brands
C9_RecordPerBrand ==
    (UpsertOk /\ Len(UpsertBatch) = 2)
        => \A i \in DOMAIN UpsertBatch :
              \E r \in store : r.id = UpsertBatch[i].id /\ r.brand = UpsertBatch[i].brand

-----------------------------------------------------------------------------
(* Drafts of one item (SpecItem) *)

\* the drafts the step appended
NewDrafts == SubSeq(mention_buffer', Len(mention_buffer) + 1, Len(mention_buffer'))

\* C10: the step that handles an unseen item whose text matches N brands appends
\* exactly N drafts, one per matched brand, equal in every other field (N = 0: none)
C10_DraftPerBrandStep ==
    (cur_item # NoItem /\ cur_item' = NoItem /\ ItemId(cur_item) \notin seen_ids)
        => LET brands == find_brands(ItemText(cur_item)) IN
           /\ Len(mention_buffer') = Len(mention_buffer) + Len(brands)
           /\ SubSeq(mention_buffer', 1, Len(mention_buffer)) = mention_buffer
           /\ \A k \in 1..Len(brands) :
                 /\ k \in DOMAIN NewDrafts
                 /\ NewDrafts[k].brand = brands[k]
                 /\ NewDrafts[k].id = ItemId(cur_item)
                 /\ [NewDrafts[k] EXCEPT !.brand = None, !.uid = 0]
                       = [NewDrafts[1] EXCEPT !.brand = None, !.uid = 0]

C10_DraftPerBrand == [][C10_DraftPerBrandStep]_vars

-----------------------------------------------------------------------------
(* Rate limiter (SpecLimiter) *)

\* C11: of the acquire() calls that have returned, the one that returned Budget
\* calls after another returned at least one window later, so that no window of
\* Window ticks holds more than Budget returns
C11_WindowBudget ==
    /\ \A i, j \in DOMAIN limiter.grants :
          j >= i + Budget => limiter.grants[j] >= limiter.grants[i] + Window
    /\ \A i \in DOMAIN limiter.grants :
          Cardinality({ j \in DOMAIN limiter.grants :
                          /\ limiter.grants[i] - Window < limiter.grants[j]
                          /\ limiter.grants[j] <= limiter.grants[i] }) <= Budget

\* C11 witness: Budget calls returned at once at tick 0 and at tick 1, a further call
\* made then has slept and returned exactly one window after the first, and
\* another caller is still asleep
C11_Witness ==
    /\ Len(limiter.grants) = Budget + 1
    /\ limiter.grants[1] = 0
    /\ limiter.grants[Budget] = 1
    /\ limiter.grants[Budget + 1] = limiter.grants[1] + Window
    /\ \E c \in Callers : limiter.lpc[c] = "sleep"

-----------------------------------------------------------------------------
(* Sentiment enricher (SpecAnalyze) *)

CredentialAbsent == enrich.token \in {None, ""}

\* the request ended in a failure: an exception, a non-success status, or a body
\* that is not a list of non-empty class distributions
ReplyFailed ==
    \/ enrich.reply.kind = "exception"
    \/ enrich.reply.kind = "response" /\ enrich.reply.status # 200
    \/ enrich.reply.kind = "response" /\ enrich.reply.status = 200
          /\ (enrich.reply.body.form # "list" \/ enrich.reply.body.list = <<>>
                \/ enrich.reply.body.list[1] = <<>>)

\* C12: a call of analyze that has returned has returned positive, neutral or
\* negative, and neutral when the text is empty or blank, when the credential is
\* absent, and when the request failed
C12_AnalyzeTotalNeutral ==
    enrich.at = "returned"
        => /\ enrich.result \in Labels
           /\ (EmptyText(enrich.text) \/ CredentialAbsent \/ ReplyFailed)
                 => enrich.result = "neutral"

\* C13: with the credential absent, analyze returns neutral and makes no request
C13_NoCredentialNoCall ==
    CredentialAbsent
        => /\ ~enrich.requested
           /\ enrich.at = "returned" => enrich.result = "neutral"

-----------------------------------------------------------------------------
(* End to end (FairSpec) *)

Buffered(id) == \E i \in DOMAIN mention_buffer : mention_buffer[i].id = id

StoredEnriched(id) == \E r \in store : r.id = id /\ r.sentiment # None

\* C14: as long as every upsert succeeds, a draft in the buffer is eventually a
\* stored record with a sentiment
C14_EventuallyStoredEnriched ==
    ([]db_up) => \A id \in Ids : [](Buffered(id) => <>StoredEnriched(id))

-----------------------------------------------------------------------------
(* Flush triggers *)

NoFlushInProgress == \A t \in FlushCallers : ~FlushInProgress(t)

\* the step appends drafts and leaves at least buffer_size drafts in the buffer
AddReachesSize ==
    /\ Len(mention_buffer') > Len(mention_buffer)
    /\ Len(mention_buffer') >= buffer_size

\* the step starts a flush: it leaves a caller inside process_mention_buffer that
\* was not inside before, or it has called insert_mentions
StartsFlush ==
    \/ \E t \in FlushCallers : FlushInProgress(t)' /\ ~FlushInProgress(t)
    \/ last_upsert' # <<>>

\* C15: an add that brings the buffer to buffer_size drafts starts a flush in the
\* same step, and outside a flush the buffer holds at most buffer_size drafts
C15_SizeTriggeredFlush ==
    /\ [][AddReachesSize /\ NoFlushInProgress => StartsFlush]_vars
    /\ [](NoFlushInProgress => Len(mention_buffer) <= buffer_size)


\* a flush is running or has just ended in its insert_mentions call
FlushOccurs == (\E t \in FlushCallers : FlushInProgress(t)) \/ UpsertCalled

BelowSize == mention_buffer # <<>> /\ Len(mention_buffer) < buffer_size

\* C16: whenever the buffer holds drafts, fewer than buffer_size, a flush occurs
\* later on (the timer of periodic_buffer_flush fires again)
C16_TimeTriggeredFlush == [](BelowSize => <>FlushOccurs)

-----------------------------------------------------------------------------
(* Adds during a flush (SpecFlushHist) *)

\* the flush of caller t, suspended in analyze, ends in this step
CompletesFlush(t) ==
    FlushInProgress(t) /\ ~FlushInProgress(t)' /\ last_upsert' # <<>>

\* C17: a draft appended after the flush of caller t started (its uid is above
\* fstart[t]) is not passed to analyze by that flush, is not in the batch that flush
\* hands to insert_mentions, and is in the buffer when that flush has ended
C17_AddDuringFlushQueuedStep ==
    \A t \in FlushCallers :
        /\ (FlushInProgress(t) /\ StartsAnalyze(t)) => fcur'[t] <= fstart[t]
        /\ CompletesFlush(t)
              => /\ \A i \in DOMAIN last_upsert'[1].batch :
                       last_upsert'[1].batch[i].uid <= fstart[t]
                 /\ \A i \in DOMAIN mention_buffer :
                       mention_buffer[i].uid > fstart[t]
                           => InBuffer(mention_buffer', mention_buffer[i].uid)

C17_AddDuringFlushQueued == [][C17_AddDuringFlushQueuedStep]_vars

\* the position at which an adapter reads its feed
ReadPos(a) == IF a = "praw" THEN "read" ELSE "request"

Stopped == {"ended", "cancelled"}

\* C18: for each of the streaming, listing and syndication adapters, once a unit
\* of work has raised (an I/O, parse, rate-limit or flush failure) the adapter's
\* task has not stopped, and it comes to read its feed again
C18_AdapterLoopsSurvive ==
    \A a \in Adapters :
        /\ [](a \in loops.raised => loops.at[a] \notin Stopped)
        /\ (a \in loops.raised) ~> (loops.at[a] = ReadPos(a))

\* C18 witness: a unit of work has raised in each of the three adapters, and each
\* of them is reading its feed again
C18_Witness ==
    /\ Adapters \subseteq loops.raised
    /\ \A a \in Adapters : loops.at[a] = ReadPos(a)

\* a poller leaves a cycle and starts the next one at the first unit
StartsCycle(p) ==
    /\ loops.at[p] \in {"cycle_sleep", "backoff"}
    /\ loops'.at[p] = LoopStart(p)

\* C19: in the polling adapters a failed request skips only its own chunk or
\* community: every unit has been requested in a cycle when the next cycle starts
C19_EveryUnitEveryCycleStep ==
    \A p \in Pollers : StartsCycle(p) => loops.asked[p] = Units

C19_EveryUnitEveryCycle == [][C19_EveryUnitEveryCycleStep]_vars

\* task t ends in this step
Ends(t) == loops.at[t] # "ended" /\ loops'.at[t] = "ended"

\* C20: a step in which an exception ends one task leaves every sibling where it
\* was: none of them is ended or cancelled by it
C20_SiblingsKeepRunningStep ==
    \A t \in LoopTasks :
        Ends(t) => \A b \in LoopTasks \ {t} :
                       /\ loops'.at[b] = loops.at[b]
                       /\ loops'.at[b] \notin Stopped

C20_SiblingsKeepRunning == [][C20_SiblingsKeepRunningStep]_vars

\* C20 witness: the flush task has ended with an exception, and since then each
\* of the three adapters has taken a step and is running
C20_Witness ==
    /\ loops.at["flush"] = "ended"
    /\ loops.after = Adapters
    /\ \A a \in Adapters : loops.at[a] \notin Stopped

\* C21: when the monitor is constructed the seen-set is the set of the ids of the
\* rows of the store, and an id that has a row then never gets a draft appended,
\* whichever adapter presents it
C21_SeededFromStore ==
    /\ seen_ids = {r.id : r \in store}
    /\ \A id \in Ids : HasRow(store, id) => [](draft_passes[id] = 0)

\* C21 witness: the store of an earlier run holds c2; an adapter has presented c2,
\* the only id seen, and the dedup check has rejected it
C21_Witness ==
    /\ HasRow(store, "c2")
    /\ seen_ids = {"c2"}
    /\ dup_dropped
    /\ draft_passes["c2"] = 0
    /\ mention_buffer = <<>>

\* C22: no step of an adapter or of a flush removes an id from the seen-set, and
\* marking an id of the set again leaves the set as it is, with the id in it
C22_SeenOnlyGrowsStep ==
    /\ seen_ids \subseteq seen_ids'
    /\ \A id \in seen_ids' : MarkSeen(seen_ids', id) = seen_ids'
    /\ \A id \in Ids : id \in MarkSeen(seen_ids', id)

C22_SeenOnlyGrows == [][C22_SeenOnlyGrowsStep]_vars

\* C22 witness: both ids have been marked seen, drafts have been upserted and the
\* flush has cleared the buffer
C22_Witness ==
    /\ seen_ids = Ids
    /\ mention_buffer = <<>>
    /\ \E u \in 1..MaxMentions : upserted[u] >= 1

\* a step in which adapter a sends a request to its source
Requests(a) ==
    IF a = "praw" THEN \E o \in PrawOutcomes : LoopPrawRead(o)
    ELSE \E o \in PollOutcomes(a) : PollRequest(a, o)

\* C23: every request of the streaming, the listing and the syndication adapter
\* is sent with a grant of the adapter's limiter, obtained since its last request
C23_RequestsGatedStep ==
    \A a \in Adapters : Requests(a) => loops.gate[a]

C23_RequestsGated == [][C23_RequestsGatedStep]_vars

\* C24: in the all-in-one monitor, once stop_monitoring() has cleared the running
\* flag every adapter task comes to leave its loop, and no task appends a draft
\* after it has read the flag as cleared
C24_StopEndsAdapters ==
    /\ [](aio.late = {})
    /\ aio.stopped ~> (\A t \in AioTasks : aio.at[t] \in AioEnded)

\* C24 witness: the three adapters were started, stop_monitoring() was called, and
\* each of them has read the cleared flag and left its loop
C24_Witness ==
    /\ aio.reddit
    /\ aio.stopped
    /\ aio.seen_stop = AioTasks
    /\ \A t \in AioTasks : aio.at[t] = "exited"

\* C25: in the all-in-one monitor, when stop_monitoring() is called with drafts
\* in the buffer, process_mention_buffer has been called after it (or was in
\* progress at the call) by the time every monitoring task has ended
C25_FinalFlush ==
    (aio.stopped /\ aio.stop_buf /\ \A t \in AioTasks : aio.at[t] \in AioEnded)
        => aio.flushed

\* C26: an all-in-one monitor without Reddit client id or secret never starts
\* the streaming task, while the listing and the syndication task are started
\* and stay in their loops as long as the running flag is set
C26_OnlyStreamingNotStarted ==
    ~aio.reddit =>
        /\ aio.at["praw"] = "not_started"
        /\ aio.running => \A p \in AioPollers : aio.at[p] \notin AioEnded

\* C26 witness: without a client, both pollers have requested their last unit of
\* a cycle and one of them has appended drafts
C26_Witness ==
    /\ ~aio.reddit
    /\ aio.running
    /\ aio.buffered
    /\ aio.at["praw"] = "not_started"
    /\ \A p \in AioPollers : aio.unit[p] = NumUnits /\ aio.at[p] = "unit_sleep"

\* C27: when the stream yields None the streaming adapter changes neither the
\* seen-set nor the buffer nor the store and goes to its one-second sleep, not to
\* the back-off of an error; when that sleep returns it reads the same stream again
C27_NoItemIsNoErrorStep ==
    /\ PrawReadNone =>
          /\ pc'["praw"] = "pause"
          /\ seen_ids' = seen_ids /\ mention_buffer' = mention_buffer /\ store' = store
    /\ (pc["praw"] = "pause" /\ pc'["praw"] # "pause") =>
          /\ pc'["praw"] = "read"
          /\ seen_ids' = seen_ids /\ mention_buffer' = mention_buffer /\ store' = store

C27_NoItemIsNoError == [][C27_NoItemIsNoErrorStep]_vars

\* C27 witness: the streaming adapter sleeps after a None item while ids are seen
\* and a draft is in the buffer
C27_Witness ==
    /\ pc["praw"] = "pause"
    /\ seen_ids # {}
    /\ mention_buffer # <<>>

\* C28: every call of acquire() on the enricher's limiter returns, however many
\* callers share it: a caller that sleeps in acquire() is eventually admitted
C28_AcquireReturns ==
    \A c \in Callers : (limiter.lpc[c] = "sleep") ~> (limiter.lpc[c] = "idle")

\* the three-way label a class name stands for, by substring
SubstringPolicy(label) ==
    IF LabelHas("positive", label) THEN "positive"
    ELSE IF LabelHas("negative", label) THEN "negative"
    ELSE "neutral"

\* the call under test has returned from a 200 response that carries a class
\* distribution with at least one class
ReturnedOnDistribution ==
    /\ enrich.at = "returned"
    /\ enrich.reply.kind = "response"
    /\ enrich.reply.status = 200
    /\ enrich.reply.body.form = "list"
    /\ enrich.reply.body.list # <<>>
    /\ enrich.reply.body.list[1] # <<>>

\* C29: on a success response analyze returns the label that the substring
\* policy gives to the name of a class of the greatest score of the distribution
C29_TopLabelBySubstring ==
    ReturnedOnDistribution =>
        LET scores == enrich.reply.body.list[1] IN
        \E i \in DOMAIN scores :
            /\ \A j \in DOMAIN scores : scores[j].score <= scores[i].score
            /\ enrich.result = SubstringPolicy(scores[i].label)

\* C29 witness: the distribution lists Neutral with the lower score before
\* NEGATIVE with the higher one, and analyze has returned "negative"
C29_Witness ==
    /\ ReturnedOnDistribution
    /\ Len(enrich.reply.body.list[1]) = 2
    /\ enrich.reply.body.list[1][1].label = <<"Neutral">>
    /\ enrich.reply.body.list[1][2].label = <<"NEGATIVE">>
    /\ enrich.reply.body.list[1][1].score < enrich.reply.body.list[1][2].score
    /\ enrich.result = "negative"

\* drafts ms of one adapter follow the order in which its feed yielded their
\* items: of two drafts of adapter a, the earlier one is of an item the feed
\* yielded no later than the item of the later one
FollowsFeed(ms) ==
    \A i, j \in DOMAIN ms :
        (i < j /\ ms[i].source = ms[j].source) =>
            LET ids == fed[ms[i].source] IN
            \E p, q \in DOMAIN ids : p <= q /\ ids[p] = ms[i].id /\ ids[q] = ms[j].id

\* C30: the drafts an adapter has appended to the buffer, and the drafts of that
\* adapter in every upsert batch, are in the order in which its feed yielded
\* their items
C30_FeedOrder ==
    /\ FollowsFeed(mention_buffer)
    /\ last_upsert # <<>> => FollowsFeed(UpsertBatch)

\* C30 witness: the listing feed has yielded c1 before c2, the streaming adapter
\* has added a draft in between, and a batch with the listing adapter's drafts of
\* c1 and c2, in that order, has been upserted
C30_Witness ==
    /\ last_upsert # <<>>
    /\ last_upsert[1].ok
    /\ \E i, j \in DOMAIN UpsertBatch :
          /\ i < j
          /\ UpsertBatch[i].source = "json" /\ UpsertBatch[i].id = "c1"
          /\ UpsertBatch[j].source = "json" /\ UpsertBatch[j].id = "c2"
    /\ fed["json"] = <<"c1", "c2">>

\* the brands whose pattern occurs in the words, whatever the case of the letters
Occurring(words) == { Brands[k] : k \in { i \in DOMAIN Brands : PatternSearch(Brands[i], words) } }

\* C31: a call of find_brands returns; what it returns holds exactly the brands
\* whose pattern occurs in the text, each once, whatever the case of the letters,
\* and is empty for a text without any of the patterns and for an empty or
\* absent text; the call changes neither the seen-set nor the buffer
C31_FindBrandsContract ==
    matcher.at # "call" =>
        /\ matcher.at = "returned"
        /\ { matcher.result[i] : i \in DOMAIN matcher.result } = Occurring(matcher.text.words)
        /\ Len(matcher.result) = Cardinality(Occurring(matcher.text.words))
        /\ (matcher.text.absent \/ matcher.text.words = <<>>) => matcher.result = <<>>
        /\ seen_ids = {} /\ mention_buffer = <<>>

\* the drafts of id among ms
DraftsOf(ms, id) == SelectSeq(ms, LAMBDA m : m.id = id)

\* C32: the syndication adapter identifies an entry by a function of its link, so
\* an entry whose id is in the seen-set when its document is handled (it matched
\* a brand in an earlier cycle) gets no further draft, and an entry listed again
\* in the same document gets none either: no id gets drafts for two presentations
C32_RefetchedEntryRejectedStep ==
    \A es \in RssDocs :
        RssResponse(es) =>
            \A i \in DOMAIN es :
                LET id == PostId(es[i].link) IN
                /\ id \in seen_ids => DraftsOf(mention_buffer', id) = DraftsOf(mention_buffer, id)
                /\ draft_passes'[id] <= 1
                /\ (id \notin seen_ids /\ id \in seen_ids') =>
                      \E j \in DOMAIN es :
                          /\ PostId(es[j].link) = id
                          /\ find_brands(Join(es[j].title, es[j].content)) # <<>>

C32_RefetchedEntryRejected == [][C32_RefetchedEntryRejectedStep]_vars

\* C32 witness: the entry of id c1 matched a brand, its draft was upserted as a
\* post of the syndication adapter, and a later presentation of c1, the only id
\* seen, was rejected by the dedup check
C32_Witness ==
    /\ dup_dropped
    /\ seen_ids = {"c1"}
    /\ draft_passes["c1"] = 1
    /\ mention_buffer = <<>>
    /\ \E r \in store : r.id = "c1" /\ r.source = "rss" /\ r.type = "post"

\* the ids of the drafts of ms
DraftIds(ms) == { ms[i].id : i \in DOMAIN ms }

\* C33: in every state the seen-set is the set of the ids of the rows of the store
\* together with the ids of the drafts in the buffer; a step adds an id to the
\* seen-set exactly when it appends a draft of that id, and an id leaves the
\* buffer only in a step after which the store has a row of it
C33_SeenIsStoredOrBufferedStep ==
    /\ seen_ids' \ seen_ids = DraftIds(mention_buffer') \ seen_ids
    /\ \A id \in DraftIds(mention_buffer) \ DraftIds(mention_buffer') : HasRow(store', id)

C33_SeenIsStoredOrBuffered ==
    /\ [](seen_ids = get_existing_ids(store) \cup DraftIds(mention_buffer))
    /\ [][C33_SeenIsStoredOrBufferedStep]_vars

\* C33 witness: of the two ids seen, c1 has entered the store with a flush that
\* this run made, and c2, not in the store, has a draft in the buffer
C33_Witness ==
    /\ seen_ids = {"c1", "c2"}
    /\ get_existing_ids(store) = {"c1"}
    /\ DraftIds(mention_buffer) = {"c2"}
    /\ \E u \in 1..MaxMentions : upserted[u] >= 1

\* the sentiment of the Mention object u in ms
SentimentIn(ms, u) == (CHOOSE m \in { ms[i] : i \in DOMAIN ms } : m.uid = u).sentiment

\* C34 (no second call): a flush calls analyze only for a draft without sentiment
C34_NoCallForEnrichedStep ==
    \A t \in FlushCallers :
        StartsAnalyze(t) => SentimentIn(mention_buffer', fcur'[t]) = None

\* C34 (same batch): once insert_mentions has failed, the drafts of the failed
\* batch stay in the buffer with the sentiments they had in that batch
C34_FailedBatchKeptStep ==
    UpsertFailed =>
        \A i \in DOMAIN UpsertBatch :
            /\ InBuffer(mention_buffer', UpsertBatch[i].uid)
            /\ SentimentIn(mention_buffer', UpsertBatch[i].uid) = UpsertBatch[i].sentiment

\* C34: after a flush has failed in insert_mentions, no enrichment call is made
\* for a draft that carries a sentiment, and the batch a retry will hand over
\* holds the drafts of the failed batch with the sentiments of the failed batch
C34_RetryKeepsSentiments ==
    [][C34_NoCallForEnrichedStep /\ C34_FailedBatchKeptStep]_vars

\* the step handles the fetched item
ItemHandled == cur_item # NoItem /\ cur_item' = NoItem

\* the step handles an item that passes the dedup check and matches no brand
NoMatchHandled ==
    /\ ItemHandled
    /\ ItemId(cur_item) \notin seen_ids
    /\ find_brands(ItemText(cur_item)) = <<>>

\* C35 as stated: the step that handles an item matching no brand leaves the
\* seen-set and the buffer as they are, in every adapter
C35_NoMatchLeavesStateStep ==
    NoMatchHandled => seen_ids' = seen_ids /\ mention_buffer' = mention_buffer

C35_NoMatchLeavesState == [][C35_NoMatchLeavesStateStep]_vars

\* C35: the step that handles an item matching no brand leaves the seen-set as it
\* is, so the id still passes the dedup check, and appends no draft.  In the
\* listing and the syndication adapter the buffer is left as it is; in the
\* streaming adapter the test of the buffer's size follows all the same, so a
\* buffer that holds buffer_size drafts is flushed: it keeps its drafts or, after
\* an insert_mentions call, is empty
C35_NoMatchAddsNothingStep ==
    NoMatchHandled =>
        /\ seen_ids' = seen_ids
        /\ ItemId(cur_item) \notin seen_ids'
        /\ Uids(mention_buffer') \in { Uids(mention_buffer), <<>> }
        /\ mention_buffer' # mention_buffer =>
              /\ cur_item.adapter = "praw"
              /\ Len(mention_buffer) >= buffer_size
              /\ last_upsert' # <<>>

C35_NoMatchAddsNothing == [][C35_NoMatchAddsNothingStep]_vars

\* C35 witness: the streaming adapter is inside a flush while the buffer holds no
\* draft of its own: the comment it handled passed the dedup check, matched no
\* brand and was followed by the test of the buffer's size
C35_Witness ==
    /\ pc["praw"] = "analyze"
    /\ cur_item = NoItem
    /\ mention_buffer # <<>>
    /\ \A i \in DOMAIN mention_buffer : mention_buffer[i].source # "praw"

\* C36: the step in which the listing adapter handles an item whose body has
\* fewer than 10 characters leaves the seen-set and the buffer as they are,
\* whether or not the body matches a brand; the step in which the streaming
\* adapter handles an unseen item of such a body that matches appends its drafts
\* and marks it seen
C36_ShortBodyStep ==
    (ItemHandled /\ TextLen(cur_item.body) < 10) =>
        /\ cur_item.adapter = "json" =>
              seen_ids' = seen_ids /\ mention_buffer' = mention_buffer
        /\ (cur_item.adapter = "praw" /\ cur_item.id \notin seen_ids
                /\ find_brands(cur_item.body) # <<>>) =>
              /\ cur_item.id \in seen_ids'
              /\ Len(mention_buffer') = Len(mention_buffer) + Len(find_brands(cur_item.body))
              /\ \A k \in 1..Len(find_brands(cur_item.body)) :
                    /\ NewDrafts[k].id = cur_item.id
                    /\ NewDrafts[k].body = cur_item.body
                    /\ NewDrafts[k].source = "praw"

C36_ShortBody == [][C36_ShortBodyStep]_vars

\* C36 witness: the buffer holds a draft of the streaming adapter whose body,
\* "badinka", has 7 characters, and every draft of the listing adapter has a body
\* of 10 characters or more
C36_Witness ==
    /\ \E i \in DOMAIN mention_buffer :
          /\ mention_buffer[i].source = "praw"
          /\ mention_buffer[i].body = <<"badinka">>
          /\ TextLen(mention_buffer[i].body) = 7
    /\ \E i \in DOMAIN mention_buffer : mention_buffer[i].source = "json"
    /\ \A i \in DOMAIN mention_buffer :
          mention_buffer[i].source = "json" => TextLen(mention_buffer[i].body) >= 10

\* the entry matches a brand
EntryMatches(e) == find_brands(Join(e.title, e.content)) # <<>>

\* C37: entries of different links get different ids, so when a document lists
\* two entries of different links, both matching a brand and neither seen, each
\* of them gets its drafts
C37_DistinctLinksKeptApartStep ==
    \A es \in RssDocs :
        (RssResponse(es) /\ Len(es) = 2 /\ es[1].link # es[2].link
            /\ EntryMatches(es[1]) /\ EntryMatches(es[2])
            /\ PostId(es[1].link) \notin seen_ids /\ PostId(es[2].link) \notin seen_ids)
        => /\ PostId(es[1].link) # PostId(es[2].link)
           /\ Len(mention_buffer') =
                 Len(mention_buffer) + Len(find_brands(Join(es[1].title, es[1].content)))
                                     + Len(find_brands(Join(es[2].title, es[2].content)))

C37_DistinctLinksKeptApart == [][C37_DistinctLinksKeptApartStep]_vars

\* C38: in stream_worker no two rows of all_data have the same id, whichever
\* reads raised and were passed over, and once the program has ended on
\* KeyboardInterrupt the file holds every row of all_data
C38_WorkerRowsOnceAndSaved ==
    /\ \A i, j \in DOMAIN worker.all_data :
          i < j => worker.all_data[i].id # worker.all_data[j].id
    /\ worker.at = "stopped" => worker.saved = worker.all_data

\* C38 witness: a read has raised and was passed over, an item already seen was
\* presented again, the rows of c1 and c2 were collected, and the program has
\* ended on KeyboardInterrupt with both rows in the file
C38_Witness ==
    /\ worker.at = "stopped"
    /\ worker.swallowed
    /\ worker.dropped
    /\ worker.seen = {"c1", "c2"}
    /\ Len(worker.all_data) = 2
    /\ worker.saved = worker.all_data

\* C39: in improved_app no connection is out of the pool while no request
\* handler is running: each handler has returned its connection by the time
\* it responds, with or without an error
C39_PoolDrainedBetweenRequests ==
    (\A t \in Threads : pool.th[t].at = "idle") => pool.out = 0

====
